---- MODULE Spec2Model ----
(***************************************************************************)
(* Model of the MCP client/manager of gotha/bitca (package mcp) and of the *)
(* chat program that uses it (package main):                               *)
(*   mcp/client.go       process connection (JSON-RPC over stdin/stdout)   *)
(*   mcp/http_client.go  HTTP/SSE connection (one POST per request)        *)
(*   mcp/config.go       configuration loader                              *)
(*   mcp/tools.go        Manager: discovery, routing table, ExecuteTool    *)
(*   commands.go         slash commands: ParseCommand, CommandRegistry     *)
(*   main.go             bubbletea model: Update, sendMessage, executeTools*)
(*                                                                         *)
(* Spec      the Manager as the application drives it from one goroutine;  *)
(*           a call on a connection is one step whose input is what the    *)
(*           server does during the call (the lines it prints, whether it  *)
(*           exits; the HTTP reply).                                       *)
(* ConcSpec  one process connection used by several goroutines, with       *)
(*           sendRequest and Close broken into their blocking steps.       *)
(* FairConcSpec  ConcSpec with fairness on the client's own steps.         *)
(* WireSpec  a process connection and an HTTP connection called directly,  *)
(*           with servers that also print noise, answer late or under      *)
(*           another id, or print maxAttempts lines without answering.     *)
(* ReloadSpec  a Manager on which LoadFromConfig runs more than once, with *)
(*           process servers only.                                         *)
(* LiveSpec  LoadFromConfig and the calls after it on one process          *)
(*           connection, in the steps of ConcSpec, with a server that may  *)
(*           go on writing for ever and may stop reading its input; with   *)
(*           fairness on the client's steps and on the server's output.    *)
(* ToolsSpec  the Manager with every one of its methods, on servers whose  *)
(*           tool definitions differ from server to server.                *)
(* CmdSpec   ParseCommand, IsCommand and Execute on every input of up to   *)
(*           MaxInput characters.                                          *)
(* ChatSpec  the chat loop after startup: the Enter key, the requests to   *)
(*           the LLM and their streams, and the execution of tool calls.   *)
(***************************************************************************)
EXTENDS Integers, Sequences, FiniteSets, TLC

\* ------------------------------------------------------------------ bounds
\* Most ExecuteTool invocations in one behaviour.
MaxExec == 1
\* Most calls made on the connections of WireSpec in one behaviour.
MaxWire == 2
\* Goroutines calling sendRequest on the connection of ConcSpec.
NCallers == 2
\* Most lines the server of ConcSpec writes in one behaviour.
MaxLines == 3
\* Most LoadFromConfig invocations on the Manager of ReloadSpec.
MaxLoads == 2
\* Most characters of an input line of CmdSpec.
MaxInput == 6
\* Most times the Enter key is pressed in one behaviour of ChatSpec.
MaxEnters == 2
\* Most requests to the LLM in one behaviour of ChatSpec.
MaxRequests == 3

\* ------------------------------------------------------- program constants
\* client.go:142  maxAttempts := 50
maxAttempts == 50

\* ----------------------------------------------------------------- domains
Servers == {"s1", "s2"}
ToolNames == {"t1", "t2"}
\* A name no server ever lists.
UnlistedTool == "t9"
\* The values of MCPServerConfig.Type that occur: absent, the three the code
\* knows, and one it does not.
TypeValues == {"", "stdio", "sse", "http", "ws"}
BaseURL == "http://h"

\* Tool arguments (map[string]interface{}) and their JSON text.
ArgValues == {"x1", "x2"}

MarshalArgs(a) ==
  IF a = "x1" THEN "{\"x\":1}" ELSE "{\"x\":2}"

\* -------------------------------------------------------------- wire format
\* json.RawMessage Result / *JSONRPCError Error of JSONRPCResponse; "none" is
\* the nil value (member absent).
None == [kind |-> "none", tools |-> <<>>, content |-> <<>>, isError |-> FALSE]

\* {"tools":[...]}
ToolsResult(ts) ==
  [kind |-> "tools", tools |-> ts, content |-> <<>>, isError |-> FALSE]

\* {"content":[...],"isError":b}
ContentResult(cs, e) ==
  [kind |-> "content", tools |-> <<>>, content |-> cs, isError |-> e]

\* A JSON object with neither member (an initialize result, {} or null).
ObjectResult == [kind |-> "object", tools |-> <<>>, content |-> <<>>, isError |-> FALSE]

\* A JSON value that is no object (a string, a number, an array).
ScalarResult == [kind |-> "scalar", tools |-> <<>>, content |-> <<>>, isError |-> FALSE]

\* JSONRPCError: {"code":..,"message":..}
RPCErrorOf(code, msg) == [kind |-> "error", code |-> code, message |-> msg]
RPCError == RPCErrorOf(-32000, "server failure")
MethodNotFound == RPCErrorOf(-32601, "method not found")

TextBlock(t) == [type |-> "text", text |-> t]
ImageBlock == [type |-> "image", text |-> ""]
\* A block of another type that has a text member.
ResourceBlock == [type |-> "resource", text |-> "r"]

\* One line of the server's stdout (or one HTTP body).  kind:
\*   "blank"    empty after TrimSpace
\*   "text"     first byte is not '{'
\*   "badjson"  starts with '{' but json.Unmarshal into JSONRPCResponse fails
\*   "obj"      unmarshals; id is 0 when the member is absent
Line(k, i, r, e) == [kind |-> k, id |-> i, result |-> r, error |-> e]
Blank == Line("blank", 0, None, None)
Text == Line("text", 0, None, None)
BadJSON == Line("badjson", 0, None, None)
Notification == Line("obj", 0, None, None)
Response(i, r) == Line("obj", i, r, None)
ErrorLine(i, e) == Line("obj", i, None, e)
ErrorResponse(i) == ErrorLine(i, RPCError)
\* An object with an id and neither result nor error (a server-to-client request).
ServerRequest(i) == Line("obj", i, None, None)
NoLine == Line("none", 0, None, None)

\* n copies of the line x.
Rep(x, n) == [i \in 1..n |-> x]

\* ------------------------------------------------------ process connection
\* A connection object (Client or HTTPClient): kind "stdio" or "http".
\* proc: "running", "exited" (not yet waited for), "reaped" (killed and waited
\* for), or "none" for HTTP.  stdout: the lines printed and not yet read.
\* stdinRoom: the pipe to the subprocess takes the next request; it does not
\* while the pipe is full of requests the subprocess has not read.
Conn(name, kind, sse, url, proc) ==
  [name |-> name, kind |-> kind, isSSE |-> sse, baseURL |-> url,
   requestID |-> 0, tools |-> <<>>, stdinOpen |-> kind = "stdio",
   stdinRoom |-> TRUE, proc |-> proc, stdout |-> <<>>]

NoConn == Conn("", "none", FALSE, "", "none")

\* atomic.AddInt64(&c.requestID, 1)
NextID(rid) == rid + 1

\* A read loop that fails the call on the first message that is not its
\* response, instead of skipping it.
Classify_NoSkip(line, id) ==
  IF line.kind # "obj" THEN "skip"
  ELSE IF line.id = id /\ line.error = None THEN "ok"
  ELSE IF line.error # None THEN "rpcerr"
  ELSE "readerr"

\* A read loop that also takes a response to an earlier request.
Classify_AtMostID(line, id) ==
  IF line.kind # "obj" THEN "skip"
  ELSE IF line.id = 0 /\ line.result = None /\ line.error = None THEN "skip"
  ELSE IF line.id <= id
       THEN (IF line.error # None THEN "rpcerr" ELSE "ok")
       ELSE "skip"

\* A read loop that takes the first response it reads, whatever its id.
Classify_AnyID(line, id) ==
  IF line.kind # "obj" THEN "skip"
  ELSE IF line.id = 0 /\ line.result = None /\ line.error = None THEN "skip"
  ELSE IF line.error # None THEN "rpcerr"
  ELSE "ok"

\* A read loop that fails the call on any object with an error member,
\* whatever its id.
Classify_AnyError(line, id) ==
  IF line.kind # "obj" THEN "skip"
  ELSE IF line.error # None THEN "rpcerr"
  ELSE IF line.id = id /\ line.id # 0 THEN "ok"
  ELSE "skip"

\* One iteration of the read loop on a line that was read: what the loop does
\* with it for the call that sent id.
Classify(line, id) ==
  IF line.kind = "blank" THEN "skip"
  ELSE IF line.kind = "text" THEN "skip"
  ELSE IF line.kind = "badjson" THEN "skip"
  ELSE IF line.id = 0 /\ line.result = None /\ line.error = None THEN "skip"
  ELSE IF line.id = id
       THEN (IF line.error # None THEN "rpcerr" ELSE "ok")
       ELSE "skip"

\* What sendRequest returns, beside the connection afterwards: the request
\* it built (req), whether it was sent, "ok" or the failure, the response on
\* "ok" (on "rpcerr" the object whose error member the error returned is
\* formatted from), and the number of lines read.
SendResult(c, req, sent, status, resp, reads) ==
  [conn |-> c, id |-> req.id, method |-> req.method, params |-> req.params,
   sent |-> sent, status |-> status, resp |-> resp, reads |-> reads,
   url |-> "", detail |-> ""]

\* JSONRPCRequest: params is the tool name and the arguments of tools/call.
JSONRPCRequest(id, method, params) == [id |-> id, method |-> method, params |-> params]
ToolCallParams(name, args) == [name |-> name, arguments |-> args]
NoParams == ToolCallParams("", "")

\* A read loop whose bound lets one more iteration run.
RECURSIVE ReadLoop_OffByOne(_, _, _, _)
ReadLoop_OffByOne(buf, eof, id, attempt) ==
  IF attempt > maxAttempts
  THEN [status |-> "exhausted", resp |-> NoLine,
        rest |-> SubSeq(buf, attempt + 1, Len(buf)), reads |-> attempt]
  ELSE IF attempt + 1 > Len(buf)
  THEN [status |-> IF eof THEN "readerr" ELSE "blocked",
        resp |-> NoLine, rest |-> <<>>, reads |-> attempt]
  ELSE IF Classify(buf[attempt + 1], id) = "skip"
  THEN ReadLoop_OffByOne(buf, eof, id, attempt + 1)
  ELSE [status |-> Classify(buf[attempt + 1], id),
        resp |-> buf[attempt + 1],
        rest |-> SubSeq(buf, attempt + 2, Len(buf)), reads |-> attempt + 1]

\* The read loop over the unread lines buf, from iteration attempt on; each
\* iteration reads one line, so iteration attempt reads buf[attempt + 1].
\* eof: the stream ends after buf.  "blocked": ReadBytes waits for a line
\* that has not been printed.  rest: the lines left unread.
RECURSIVE ReadLoop(_, _, _, _)
ReadLoop(buf, eof, id, attempt) ==
  IF attempt >= maxAttempts
  THEN [status |-> "exhausted", resp |-> NoLine,
        rest |-> SubSeq(buf, attempt + 1, Len(buf)), reads |-> attempt]
  ELSE IF attempt + 1 > Len(buf)
  THEN [status |-> IF eof THEN "readerr" ELSE "blocked",
        resp |-> NoLine, rest |-> <<>>, reads |-> attempt]
  ELSE IF Classify(buf[attempt + 1], id) = "skip"
  THEN ReadLoop(buf, eof, id, attempt + 1)
  ELSE [status |-> Classify(buf[attempt + 1], id),
        resp |-> buf[attempt + 1],
        rest |-> SubSeq(buf, attempt + 2, Len(buf)), reads |-> attempt + 1]

\* c.stdin.Write succeeds: the pipe is open on both ends.
CanWrite(c) == c.stdinOpen /\ c.proc = "running"

\* What the server does during one call on a process connection: the lines it
\* prints and whether it exits (closing its stdout) after them.
StdioBehaviour(ls, d) == [kind |-> "stdio", emit |-> ls, dies |-> d,
                          net |-> "", code |-> 0, body |-> NoLine]
\* What the endpoint does with one POST: net = "fail" (no reply), or a status
\* code and a body.
HTTPBehaviour(n, sc, b) == [kind |-> "http", emit |-> <<>>, dies |-> FALSE,
                            net |-> n, code |-> sc, body |-> b]

NoBehaviour == StdioBehaviour(<<>>, FALSE)

\* Client.sendRequest after the write: r is what the read loop found.
ClientRead(c, req, dies, r) ==
  SendResult([c EXCEPT !.requestID = req.id, !.stdout = r.rest,
                       !.proc = IF dies THEN "exited" ELSE c.proc],
             req, TRUE, r.status, r.resp, r.reads)

\* A sendRequest that gives the id back when the write fails.
ClientSend_Rollback(c, req, beh) ==
  IF ~CanWrite(c)
  THEN SendResult(c, req, FALSE, "writeerr", NoLine, 0)
  ELSE ClientRead(c, req, beh.dies,
                  ReadLoop(c.stdout \o beh.emit, beh.dies, req.id, 0))

\* Client.sendRequest from the request it built on.
ClientSend(c, req, beh) ==
  IF ~CanWrite(c)
  THEN SendResult([c EXCEPT !.requestID = req.id], req, FALSE, "writeerr", NoLine, 0)
  ELSE ClientRead(c, req, beh.dies,
                  ReadLoop(c.stdout \o beh.emit, beh.dies, req.id, 0))

\* Client.sendRequest as one step.
ClientSendRequest(c, method, params, beh) ==
  ClientSend(c, JSONRPCRequest(NextID(c.requestID), method, params), beh)

\* --------------------------------------------------------- HTTP connection
\* A request that goes to the base URL whatever the configured type.
PostURL_Base(c) == c.baseURL

\* The URL a request is posted to.
PostURL(c) == IF c.isSSE THEN c.baseURL \o "/message" ELSE c.baseURL

\* string(body): the bytes of a reply body.
BodyText(b) ==
  IF b.kind = "text" THEN "oops"
  ELSE IF b.kind = "obj" /\ b.error # None
  THEN "{id:" \o ToString(b.id) \o ",error:{code:" \o ToString(b.error.code)
         \o ",message:" \o b.error.message \o "}}"
  ELSE IF b.kind = "obj" THEN "{id:" \o ToString(b.id) \o "}"
  ELSE ""

\* fmt.Errorf("HTTP error %d: %s", httpResp.StatusCode, string(body))
HTTPErrorText(beh) ==
  "HTTP error " \o ToString(beh.code) \o ": " \o BodyText(beh.body)

\* A sendRequest that parses the body whatever the status of the reply.
HTTPStatus_AnyCode(beh) ==
  IF beh.net = "fail" THEN "neterr"
  ELSE IF beh.body.kind # "obj" THEN "parseerr"
  ELSE IF beh.body.error # None THEN "rpcerr"
  ELSE "ok"

\* HTTPClient.sendRequest from the reply on: "ok" or the failure.
HTTPStatus(beh) ==
  IF beh.net = "fail" THEN "neterr"
  ELSE IF beh.code # 200 THEN "httperr"
  ELSE IF beh.body.kind # "obj" THEN "parseerr"
  ELSE IF beh.body.error # None THEN "rpcerr"
  ELSE "ok"

\* HTTPClient.sendRequest: one POST to PostURL(c), and its reply.
HTTPSendRequest(c, method, params, beh) ==
  [SendResult([c EXCEPT !.requestID = NextID(c.requestID)],
              JSONRPCRequest(NextID(c.requestID), method, params),
              TRUE, HTTPStatus(beh),
              IF HTTPStatus(beh) \in {"ok", "rpcerr"} THEN beh.body ELSE NoLine, 0)
     EXCEPT !.url = PostURL(c),
            !.detail = IF HTTPStatus(beh) = "httperr" THEN HTTPErrorText(beh) ELSE ""]

\* ------------------------------------------- the MCPClient interface methods
\* fmt.Errorf("RPC error %d: %s", resp.Error.Code, resp.Error.Message)
RPCErrorText(e) == "RPC error " \o ToString(e.code) \o ": " \o e.message

\* The text of the error sendRequest returned with outcome r.
ErrorText(r) ==
  IF r.status = "rpcerr" THEN RPCErrorText(r.resp.error)
  ELSE IF r.status = "httperr" THEN r.detail
  ELSE r.status

sendRequest(c, method, params, beh) ==
  IF c.kind = "stdio"
  THEN ClientSendRequest(c, method, params, beh)
  ELSE HTTPSendRequest(c, method, params, beh)

\* What a method returns to its caller, beside the connection afterwards and
\* the request it made: tools and out are the values, err is "" for nil.
CallResult(c, r, tools, out, err) ==
  [conn |-> c, send |-> r, tools |-> tools, out |-> out, err |-> err]

\* Initialize, given the outcome r of its request: the response is dropped.
InitializeReturn(r) ==
  CallResult(r.conn, r, <<>>, "",
             IF r.status # "ok" THEN "initialize failed: " \o ErrorText(r) ELSE "")

Initialize(c, beh) == InitializeReturn(sendRequest(c, "initialize", NoParams, beh))

\* json.Unmarshal(resp.Result, &v) for a struct v fails on a nil RawMessage and
\* on a value that is no object.
ResultParses(res) == res.kind \notin {"none", "scalar"}

\* ListTools, given the outcome r of its request: caches and returns
\* result.Tools.
ListToolsReturn(r) ==
  IF r.status # "ok"
  THEN CallResult(r.conn, r, <<>>, "", "tools/list failed: " \o ErrorText(r))
  ELSE IF ~ResultParses(r.resp.result)
  THEN CallResult(r.conn, r, <<>>, "", "failed to parse tools list")
  ELSE CallResult([r.conn EXCEPT !.tools = r.resp.result.tools], r,
                  r.resp.result.tools, "", "")

ListTools(c, beh) == ListToolsReturn(sendRequest(c, "tools/list", NoParams, beh))

\* A concatenation of the text of every block, whatever its type.
RECURSIVE ConcatText_AnyType(_)
ConcatText_AnyType(cs) ==
  IF cs = <<>> THEN ""
  ELSE Head(cs).text \o ConcatText_AnyType(Tail(cs))

\* The concatenation of the text of the blocks of type "text".
RECURSIVE ConcatText(_)
ConcatText(cs) ==
  IF cs = <<>> THEN ""
  ELSE (IF Head(cs).type = "text" THEN Head(cs).text ELSE "") \o ConcatText(Tail(cs))

\* CallTool, given the outcome r of its request: (output, error).
CallToolReturn(r) ==
  IF r.status # "ok"
  THEN CallResult(r.conn, r, <<>>, "", "tools/call failed: " \o ErrorText(r))
  ELSE IF ~ResultParses(r.resp.result)
  THEN CallResult(r.conn, r, <<>>, "", "failed to parse tool result")
  ELSE IF r.resp.result.isError
  THEN CallResult(r.conn, r, <<>>, "",
                  "tool error: " \o ConcatText(r.resp.result.content))
  ELSE CallResult(r.conn, r, <<>>, ConcatText(r.resp.result.content), "")

CallTool(c, name, args, beh) ==
  CallToolReturn(sendRequest(c, "tools/call", ToolCallParams(name, args), beh))

\* Client.Close: closes stdin, kills the process and waits for it; the errors
\* of a repeated close, kill or wait are dropped.  HTTPClient.Close: nothing.
Close_NoKill(c) ==
  IF c.kind = "stdio"
  THEN [c EXCEPT !.stdinOpen = FALSE]
  ELSE c

Close(c) ==
  IF c.kind = "stdio"
  THEN [c EXCEPT !.stdinOpen = FALSE, !.proc = "reaped"]
  ELSE c

\* ------------------------------------------------------------- configuration
\* MCPServerConfig: the fields the Manager reads.
ServerConfig(t, u) == [type |-> t, url |-> u]

IsStdio(sc) == sc.type = "" \/ sc.type = "stdio"
IsSSE(sc) == sc.type = "sse"
IsHTTP(sc) == sc.type = "http"

\* The server entries a configuration document can hold.
ServerConfigs ==
  {ServerConfig(t, "") : t \in TypeValues} \cup
  {ServerConfig(t, BaseURL) : t \in {"sse", "http"}}

EmptyServers == [n \in {} |-> ServerConfig("", "")]

\* What os.ReadFile finds at the path: no file, a file that cannot be read, a
\* document that is not JSON, or a document with its mcpServers map.  The
\* servers of a document that is not JSON are those written in it before the
\* place where it stops being JSON.
ConfigFile(st, m) == [state |-> st, servers |-> m]

ConfigFiles ==
  {ConfigFile(st, EmptyServers) : st \in {"missing", "unreadable"}} \cup
  {ConfigFile(st, m) : st \in {"malformed", "ok"},
                       m \in UNION {[S -> ServerConfigs] : S \in SUBSET Servers}}

\* A LoadMCPConfig that drops the error of json.Unmarshal and returns what
\* was decoded.
LoadMCPConfig_Partial(file) ==
  IF file.state = "missing" THEN [servers |-> EmptyServers, err |-> ""]
  ELSE IF file.state = "unreadable" THEN [servers |-> EmptyServers, err |-> "read"]
  ELSE [servers |-> file.servers, err |-> ""]

\* A LoadMCPConfig without the os.IsNotExist case.
LoadMCPConfig_MissingIsError(file) ==
  IF file.state \in {"missing", "unreadable"}
  THEN [servers |-> EmptyServers, err |-> "read"]
  ELSE IF file.state = "malformed" THEN [servers |-> EmptyServers, err |-> "parse"]
  ELSE [servers |-> file.servers, err |-> ""]

\* LoadMCPConfig: (config, err).
LoadMCPConfig(file) ==
  IF file.state = "missing" THEN [servers |-> EmptyServers, err |-> ""]
  ELSE IF file.state = "unreadable" THEN [servers |-> EmptyServers, err |-> "read"]
  ELSE IF file.state = "malformed" THEN [servers |-> EmptyServers, err |-> "parse"]
  ELSE [servers |-> file.servers, err |-> ""]

\* --------------------------------------------------------- server behaviours
\* The scripts a process server follows for the call that carries id.  The
\* successful result is any of payloads; in the scripts with other lines
\* before the answer it is p0.  Every script lets the call return: the
\* answer or 50 lines are in the stream, or the server exits.
StdioReplies(id, payloads, p0) ==
  {StdioBehaviour(<<Response(id, p)>>, FALSE) : p \in payloads} \cup
  { StdioBehaviour(<<Notification, Response(id, p0)>>, FALSE),
    StdioBehaviour(<<ErrorResponse(id)>>, FALSE),
    StdioBehaviour(<<>>, TRUE) }

\* maxAttempts lines that are not the answer to id, of every kind in turn.
MixedNoise(id) ==
  [k \in 1..maxAttempts |->
     CASE k % 5 = 1 -> Blank
       [] k % 5 = 2 -> Text
       [] k % 5 = 3 -> BadJSON
       [] k % 5 = 4 -> Notification
       [] OTHER -> Response(id + 1, ObjectResult)]

\* More of them, for the runs that look at one connection.
StdioScripts(id, payloads, p0) ==
  StdioReplies(id, payloads, p0) \cup
  { StdioBehaviour(MixedNoise(id) \o <<Response(id, p0)>>, FALSE) } \cup
  { StdioBehaviour(<<Blank, Text, BadJSON, Response(id, p0)>>, FALSE),
    StdioBehaviour(<<ErrorLine(id + 1, MethodNotFound), Response(id, p0)>>, FALSE),
    StdioBehaviour(Rep(Notification, maxAttempts - 1) \o <<Response(id, p0)>>, FALSE),
    StdioBehaviour(Rep(Notification, maxAttempts) \o <<Response(id, p0)>>, FALSE),
    StdioBehaviour(<<ServerRequest(id)>>, FALSE) }

\* The replies an HTTP endpoint gives to the POST that carries id.
HTTPReplies(id, payloads) ==
  {HTTPBehaviour("ok", 200, Response(id, p)) : p \in payloads} \cup
  { HTTPBehaviour("fail", 0, NoLine),
    HTTPBehaviour("ok", 500, Text),
    HTTPBehaviour("ok", 200, ErrorResponse(id)) }

HTTPScripts(id, payloads, p0) ==
  HTTPReplies(id, payloads) \cup
  { HTTPBehaviour("ok", 200, Response(id + 1, p0)),
    HTTPBehaviour("ok", 200, ErrorLine(id + 1, MethodNotFound)),
    HTTPBehaviour("ok", 200, Text),
    HTTPBehaviour("ok", 200, Notification),
    HTTPBehaviour("ok", 404, ErrorResponse(id)),
    HTTPBehaviour("ok", 201, Response(id, p0)) }

\* What a server of the given kind may do during the call that carries id.
ServerBehaviours(kind, id, payloads, p0, rich) ==
  IF kind = "stdio"
  THEN (IF rich THEN StdioScripts(id, payloads, p0) ELSE StdioReplies(id, payloads, p0))
  ELSE (IF rich THEN HTTPScripts(id, payloads, p0) ELSE HTTPReplies(id, payloads))

\* What the server of connection c may do during c's next call; nothing is
\* asked of it when the request cannot be written.
Behaviours(c, payloads, p0, rich) ==
  IF c.kind = "stdio" /\ ~CanWrite(c) THEN {NoBehaviour}
  ELSE ServerBehaviours(c.kind, NextID(c.requestID), payloads, p0, rich)

\* MCPTool: the name and the rest of the definition.
Tool(n) == [name |-> n, description |-> "about " \o n]
ToolLists == {<<>>, <<Tool("t1")>>, <<Tool("t2")>>, <<Tool("t1"), Tool("t2")>>}

InitPayloads == {ObjectResult}
ListPayloads == {ToolsResult(ts) : ts \in ToolLists} \cup {ScalarResult}
\* The result of a server that echoes its arguments as text content.
Echo(args) == ContentResult(<<TextBlock(MarshalArgs(args))>>, FALSE)
CallPayloads(args) ==
  { Echo(args),
    ContentResult(<<TextBlock("a"), ImageBlock, ResourceBlock, TextBlock("b")>>, FALSE),
    ContentResult(<<TextBlock("bo"), ResourceBlock, TextBlock("om")>>, TRUE),
    ScalarResult }

CallBehaviours(c, args, rich) == Behaviours(c, CallPayloads(args), Echo(args), rich)

\* ---------------------------------------------------------- slash commands
\* A Go string is the sequence of its characters; a text need not be cut
\* finer than the program cuts it.
Whitespace == {" "}

\* strings.ToLower, on the characters that occur.
ToLowerChar(ch) == IF ch = "M" THEN "m" ELSE ch
ToLower(s) == [k \in DOMAIN s |-> ToLowerChar(s[k])]

RECURSIVE TrimLeft(_)
TrimLeft(s) ==
  IF s # <<>> /\ Head(s) \in Whitespace THEN TrimLeft(Tail(s)) ELSE s

RECURSIVE TrimRight(_)
TrimRight(s) ==
  IF s # <<>> /\ s[Len(s)] \in Whitespace
  THEN TrimRight(SubSeq(s, 1, Len(s) - 1))
  ELSE s

\* strings.TrimSpace
TrimSpace(s) == TrimRight(TrimLeft(s))

\* strings.HasPrefix(s, "/")
HasSlashPrefix(s) == s # <<>> /\ Head(s) = "/"

\* The longest prefix of s without whitespace.
RECURSIVE Token(_)
Token(s) ==
  IF s = <<>> \/ Head(s) \in Whitespace THEN <<>>
  ELSE <<Head(s)>> \o Token(Tail(s))

\* strings.Fields: the maximal runs of characters that are no whitespace.
RECURSIVE Fields(_)
Fields(s) ==
  IF s = <<>> THEN <<>>
  ELSE IF Head(s) \in Whitespace THEN Fields(Tail(s))
  ELSE <<Token(s)>> \o Fields(SubSeq(s, Len(Token(s)) + 1, Len(s)))

\* What ParseCommand returns: the name ("" for no command) and the
\* arguments (nil and the empty slice are the same sequence).
Parsed(name, args) == [name |-> name, args |-> args]

\* ParseCommand after TrimSpace.
ParseTrimmed(t) ==
  IF ~HasSlashPrefix(t) THEN Parsed(<<>>, <<>>)
  ELSE IF Fields(Tail(t)) = <<>> THEN Parsed(<<>>, <<>>)
  ELSE Parsed(Head(Fields(Tail(t))), Tail(Fields(Tail(t))))

\* A ParseCommand that does not trim its input.
ParseCommand_NoTrim(input) == ParseTrimmed(input)

ParseCommand(input) == ParseTrimmed(TrimSpace(input))

\* The keys of CommandRegistry.commands after NewCommandRegistry: Register
\* stores each command under strings.ToLower(cmd.Name).
RegisteredNames ==
  { <<"m", "c", "p">>, <<"h", "e", "l", "p">>, <<"t", "o", "o", "l", "s">>,
    <<"m", "o", "d", "e", "l">>, <<"d", "e", "b", "u", "g">>,
    <<"b", "a", "c", "k", "e", "n", "d">> }
Registry == {ToLower(n) : n \in RegisteredNames}

\* An IsCommand that looks the name up as it was typed.
IsCommand_CaseSensitive(input) ==
  /\ ParseCommand(input).name # <<>>
  /\ ParseCommand(input).name \in Registry

IsCommand(input) ==
  /\ ParseCommand(input).name # <<>>
  /\ ToLower(ParseCommand(input).name) \in Registry

\* What Execute returns: the output and the error (<<>> for nil).  handler
\* is the key of the command whose Handler ran, <<>> if none did.
Executed(handler, args, out, err) ==
  [handler |-> handler, args |-> args, out |-> out, err |-> err]

\* CommandRegistry.Execute; the output of a handler is known by its name.
Execute(input) ==
  IF ParseCommand(input).name = <<>>
  THEN Executed(<<>>, <<>>, <<>>, <<"invalid command">>)
  ELSE IF ToLower(ParseCommand(input).name) \notin Registry
  THEN Executed(<<>>, <<>>, <<>>,
                <<"unknown command: /">> \o ParseCommand(input).name)
  ELSE Executed(ToLower(ParseCommand(input).name), ParseCommand(input).args,
                <<"output of ">> \o ToLower(ParseCommand(input).name), <<>>)

\* What the history keeps of a call of ParseCommand, IsCommand or Execute.
NoCall == [op |-> "", input |-> <<>>, parsed |-> Parsed(<<>>, <<>>),
           is |-> FALSE, exec |-> Executed(<<>>, <<>>, <<>>, <<>>)]

\* api.Message and api.ToolCall, with the fields the program uses.  A
\* content is a text in pieces.
Message(role, content, calls, id) ==
  [Role |-> role, Content |-> content, ToolCalls |-> calls, ToolCallID |-> id]
ToolCall(id, name, args) == [ID |-> id, Name |-> name, Arguments |-> args]

SystemPrompt ==
  Message("system", <<"You are a helpful AI assistant with access to tools.">>,
          <<>>, "")

\* The tools defineTools returns, by name.
BuiltinTools == <<"read", "write", "edit", "glob", "grep", "bash">>

\* The chat program before initialModel.  The fields of the bubbletea model
\* that the handlers read or write (streamChan: the number of the request
\* whose channel it is, 0 for nil); requests: the calls of client.Chat that
\* have not delivered their streamDoneMsg, each with the commands waiting on
\* its channel; runs: the executeTools commands that have not delivered
\* their toolExecutionMsg; enters, entered, nreq: history.
NoChat ==
  [call |-> NoCall, started |-> FALSE, messages |-> <<>>, conversation |-> <<>>,
   tools |-> <<>>, modelName |-> "", waiting |-> FALSE, streaming |-> FALSE,
   currentResponse |-> <<>>, streamChan |-> 0, requests |-> <<>>, runs |-> <<>>,
   enters |-> 0, entered |-> <<>>, nreq |-> 0]

\* ------------------------------------------------------------------- state
VARIABLES
  conns,         \* every connection object created so far, by number
  clients,       \* Manager.clients: server name -> connection number
  toolToClient,  \* Manager.toolToClient: tool name -> connection number
  load,          \* LoadFromConfig: its position, configuration and outcomes
  nops,          \* operations invoked so far (bounds a behaviour)
  closed,        \* history: the connections on which Close has returned
  log,           \* history: per connection, the requests it issued, in order
  last,          \* history: the last operation and what it returned
  mu,            \* ConcSpec: the goroutine holding Client.mu, 0 when unlocked
  threads,       \* ConcSpec: each goroutine's position in sendRequest or Close
  emitted,       \* ConcSpec: lines the server has written so far
  chat           \* the chat program: its bubbletea model and what is in flight

vars == <<conns, clients, toolToClient, load, nops, closed, log, last, mu, threads, emitted, chat>>

\* m[k] := v on a Go map.
Put(m, k, v) == [x \in DOMAIN m \cup {k} |-> IF x = k THEN v ELSE m[x]]

Range(f) == {f[x] : x \in DOMAIN f}

EmptyMap == [n \in {} |-> 0]

\* The orders in which range may visit the keys of a map.
Orders(S) == {o \in [1..Cardinality(S) -> S] : \A i, j \in DOMAIN o : i # j => o[i] # o[j]}

\* NewClient after a successful cmd.Start.
NewClient(name) == Conn(name, "stdio", FALSE, "", "running")

\* NewHTTPClient with a non-empty URL.
NewHTTPClient(name, sc) == Conn(name, "http", IsSSE(sc), sc.url, "none")

\* A transport selection whose second branch takes every type that is not
\* that of a process connection.
Create_DefaultHTTP(name, sc, started) ==
  IF IsStdio(sc)
  THEN [supported |-> TRUE, ok |-> started,
        conn |-> IF started THEN NewClient(name) ELSE NoConn]
  ELSE [supported |-> TRUE, ok |-> sc.url # "",
        conn |-> IF sc.url # "" THEN NewHTTPClient(name, sc) ELSE NoConn]

\* A transport selection whose HTTP constructor accepts an empty URL.
Create_NoURLCheck(name, sc, started) ==
  IF IsStdio(sc)
  THEN [supported |-> TRUE, ok |-> started,
        conn |-> IF started THEN NewClient(name) ELSE NoConn]
  ELSE IF IsSSE(sc) \/ IsHTTP(sc)
  THEN [supported |-> TRUE, ok |-> TRUE, conn |-> NewHTTPClient(name, sc)]
  ELSE [supported |-> FALSE, ok |-> FALSE, conn |-> NoConn]

\* A transport selection that leaves IsSSE out of its second branch.
Create_NoSSE(name, sc, started) ==
  IF IsStdio(sc)
  THEN [supported |-> TRUE, ok |-> started,
        conn |-> IF started THEN NewClient(name) ELSE NoConn]
  ELSE IF IsHTTP(sc)
  THEN [supported |-> TRUE, ok |-> sc.url # "",
        conn |-> IF sc.url # "" THEN NewHTTPClient(name, sc) ELSE NoConn]
  ELSE [supported |-> FALSE, ok |-> FALSE, conn |-> NoConn]

\* The transport selection of the loop body: which constructor runs and
\* whether it returns a client.  started: cmd.Start succeeds.
Create(name, sc, started) ==
  IF IsStdio(sc)
  THEN [supported |-> TRUE, ok |-> started,
        conn |-> IF started THEN NewClient(name) ELSE NoConn]
  ELSE IF IsSSE(sc) \/ IsHTTP(sc)
  THEN [supported |-> TRUE, ok |-> sc.url # "",
        conn |-> IF sc.url # "" THEN NewHTTPClient(name, sc) ELSE NoConn]
  ELSE [supported |-> FALSE, ok |-> FALSE, conn |-> NoConn]

\* A request as the log keeps it: r is the outcome of sendRequest.
Request(r) ==
  [id |-> r.id, method |-> r.method, tool |-> r.params.name,
   args |-> r.params.arguments, sent |-> r.sent, status |-> r.status]

\* A MergeTools in which a name that is already routed keeps its client.
RECURSIVE MergeTools_KeepFirst(_, _, _)
MergeTools_KeepFirst(t2c, tools, idx) ==
  IF tools = <<>> THEN t2c
  ELSE MergeTools_KeepFirst(IF Head(tools).name \in DOMAIN t2c THEN t2c
                            ELSE Put(t2c, Head(tools).name, idx),
                            Tail(tools), idx)

\* for _, tool := range tools { m.toolToClient[tool.Name] = client }
RECURSIVE MergeTools(_, _, _)
MergeTools(t2c, tools, idx) ==
  IF tools = <<>> THEN t2c
  ELSE MergeTools(Put(t2c, Head(tools).name, idx), Tail(tools), idx)

\* What one iteration of the loop of LoadFromConfig did: whether the type is
\* supported, whether a client was created, the client as the iteration left
\* it, the errors of Initialize and ListTools, the tools listed, whether the
\* client was registered, and the requests made.
LoadOutcome(supported, created, c, initErr, listErr, tools, registered, reqs) ==
  [supported |-> supported, created |-> created, conn |-> c, initErr |-> initErr,
   listErr |-> listErr, tools |-> tools, registered |-> registered, reqs |-> reqs]

\* A LoadListed in which the continue after a failed ListTools is missing.
LoadListed_NoContinue(i, l) ==
  LoadOutcome(TRUE, TRUE, IF l.err # "" THEN Close(l.conn) ELSE l.conn, "", l.err,
              l.tools, TRUE, <<Request(i.send), Request(l.send)>>)

\* A LoadListed that closes the client on every path, also before
\* registering it.
LoadListed_CloseAlways(i, l) ==
  IF l.err # ""
  THEN LoadOutcome(TRUE, TRUE, Close(l.conn), "", l.err, <<>>, FALSE,
                   <<Request(i.send),
                     Request(l.send)>>)
  ELSE LoadOutcome(TRUE, TRUE, Close(l.conn), "", "", l.tools, TRUE,
                   <<Request(i.send),
                     Request(l.send)>>)

\* The iteration from the return of ListTools (l) on; i: what Initialize returned.
LoadListed(i, l) ==
  IF l.err # ""
  THEN LoadOutcome(TRUE, TRUE, Close(l.conn), "", l.err, <<>>, FALSE,
                   <<Request(i.send),
                     Request(l.send)>>)
  ELSE LoadOutcome(TRUE, TRUE, l.conn, "", "", l.tools, TRUE,
                   <<Request(i.send),
                     Request(l.send)>>)

\* A LoadInitialized that goes on to ListTools whatever Initialize returned.
LoadInitialized_ListAnyway(i, b2) == LoadListed(i, ListTools(i.conn, b2))

\* A LoadInitialized in which a client that fails to initialize is dropped
\* without Close.
LoadInitialized_NoClose(i, b2) ==
  IF i.err # ""
  THEN LoadOutcome(TRUE, TRUE, i.conn, i.err, "", <<>>, FALSE,
                   <<Request(i.send)>>)
  ELSE LoadListed(i, ListTools(i.conn, b2))

\* The iteration from the return of Initialize (i) on.
LoadInitialized(i, b2) ==
  IF i.err # ""
  THEN LoadOutcome(TRUE, TRUE, Close(i.conn), i.err, "", <<>>, FALSE,
                   <<Request(i.send)>>)
  ELSE LoadListed(i, ListTools(i.conn, b2))

\* The iteration from the return of the constructor (cr) on.
LoadCreated(cr, b1, b2) ==
  IF ~cr.ok
  THEN LoadOutcome(cr.supported, FALSE, NoConn, "", "", <<>>, FALSE, <<>>)
  ELSE LoadInitialized(Initialize(cr.conn, b1), b2)

\* One iteration of the loop of LoadFromConfig for server name, given what
\* the server does during initialize (b1) and tools/list (b2).
LoadOne(name, sc, started, b1, b2) == LoadCreated(Create(name, sc, started), b1, b2)

NoLast == [op |-> "", name |-> "", args |-> "", conn |-> 0, pre |-> <<>>,
           beh |-> NoBehaviour, id |-> 0, sent |-> FALSE, status |-> "",
           reads |-> 0, resp |-> NoLine, out |-> "", err |-> "",
           servers |-> <<>>, found |-> FALSE, tools |-> <<>>, url |-> ""]

\* What the history keeps of an operation on connection idx that made the
\* request r.send: the lines unread before it (pre), what the server did
\* (beh), and what was returned.
Last(op, name, args, idx, beh, r) ==
  [op |-> op, name |-> name, args |-> args, conn |-> idx,
   pre |-> conns[idx].stdout, beh |-> beh,
   id |-> r.send.id, sent |-> r.send.sent, status |-> r.send.status,
   reads |-> r.send.reads, resp |-> r.send.resp, out |-> r.out, err |-> r.err,
   servers |-> <<>>, found |-> FALSE, tools |-> <<>>, url |-> r.send.url]

Idle == load.pc \in {"idle", "done"}

Init ==
  /\ conns = <<>>
  /\ clients = EmptyMap
  /\ toolToClient = EmptyMap
  /\ load = [pc |-> "idle", runs |-> 0, file |-> "", cfg |-> EmptyServers,
             order |-> <<>>, todo |-> <<>>, err |-> "", outcome |-> EmptyMap]
  /\ nops = 0
  /\ closed = {}
  /\ log = <<>>
  /\ last = NoLast
  /\ mu = 0
  /\ threads = <<>>
  /\ emitted = 0
  /\ chat = NoChat

\* LoadFromConfig up to the loop, given what LoadMCPConfig(file) returned (r): an
\* error returns at once; otherwise range fixes an order over the servers.
LoadBegin(file, r, order) ==
  /\ IF r.err # ""
     THEN /\ order = <<>>
          /\ load' = [pc |-> "done", runs |-> load.runs + 1, file |-> file.state,
                      cfg |-> EmptyServers, order |-> <<>>, todo |-> <<>>,
                      err |-> "failed to load MCP config: " \o r.err,
                      outcome |-> EmptyMap]
     ELSE /\ order \in Orders(DOMAIN r.servers)
          /\ load' = [pc |-> IF order = <<>> THEN "done" ELSE "loop",
                      runs |-> load.runs + 1, file |-> file.state,
                      cfg |-> r.servers, order |-> order, todo |-> order,
                      err |-> "", outcome |-> EmptyMap]
  /\ last' = [NoLast EXCEPT !.op = "LoadFromConfig"]
  /\ UNCHANGED <<conns, clients, toolToClient, nops, closed, log, mu, threads, emitted, chat>>

LoadFromConfig(file, order) ==
  /\ Idle
  /\ LoadBegin(file, LoadMCPConfig(file), order)

\* A LoadCommit in which a server that fails makes LoadFromConfig return the
\* error instead of continuing with the next server.
LoadCommit_Abort(name, idx, o) ==
  /\ o.initErr # "initialize failed: blocked"
  /\ o.listErr # "tools/list failed: blocked"
  /\ conns' = IF o.created THEN Append(conns, o.conn) ELSE conns
  /\ log' = IF o.created THEN Append(log, o.reqs) ELSE log
  /\ closed' = IF o.created /\ ~o.registered THEN closed \cup {idx} ELSE closed
  /\ clients' = IF o.registered THEN Put(clients, name, idx) ELSE clients
  /\ toolToClient' = IF o.registered
                     THEN MergeTools(toolToClient, o.tools, idx)
                     ELSE toolToClient
  /\ load' = [load EXCEPT !.todo = IF o.registered THEN Tail(load.todo) ELSE <<>>,
                !.pc = IF Tail(load.todo) = <<>> \/ ~o.registered THEN "done" ELSE "loop",
                !.err = IF o.registered THEN "" ELSE "failed to load MCP server",
                !.outcome = Put(load.outcome, name,
                                [o EXCEPT !.conn = IF o.created THEN idx ELSE 0])]
  /\ UNCHANGED <<nops, last, mu, threads, emitted, chat>>

\* The effect of one iteration with outcome o on the Manager; a client that
\* is created gets the number idx.  After the last iteration LoadFromConfig
\* returns nil.
LoadCommit(name, idx, o) ==
  /\ o.initErr # "initialize failed: blocked"
  /\ o.listErr # "tools/list failed: blocked"
  /\ conns' = IF o.created THEN Append(conns, o.conn) ELSE conns
  /\ log' = IF o.created THEN Append(log, o.reqs) ELSE log
  /\ closed' = IF o.created /\ ~o.registered THEN closed \cup {idx} ELSE closed
  /\ clients' = IF o.registered THEN Put(clients, name, idx) ELSE clients
  /\ toolToClient' = IF o.registered
                     THEN MergeTools(toolToClient, o.tools, idx)
                     ELSE toolToClient
  /\ load' = [load EXCEPT !.todo = Tail(load.todo),
                !.pc = IF Tail(load.todo) = <<>> THEN "done" ELSE "loop",
                !.outcome = Put(load.outcome, name,
                                [o EXCEPT !.conn = IF o.created THEN idx ELSE 0])]
  /\ UNCHANGED <<nops, last, mu, threads, emitted, chat>>

\* One iteration of the loop.  The inputs that the iteration does not
\* consult are fixed, so that each run of it is one step.
LoadServer(started, b1, b2) ==
  /\ load.pc = "loop"
  /\ (~IsStdio(load.cfg[Head(load.todo)]) => started)
  /\ (~Create(Head(load.todo), load.cfg[Head(load.todo)], started).ok
        => b1 = NoBehaviour /\ b2 = NoBehaviour)
  /\ LoadCommit(Head(load.todo), Len(conns) + 1,
                LoadOne(Head(load.todo), load.cfg[Head(load.todo)], started, b1, b2))
  /\ (load'.outcome[Head(load.todo)].initErr # "" => b2 = NoBehaviour)

\* An ExecuteRouted in which the error of CallTool is wrapped, not returned as is.
ExecuteRouted_Wrap(name, args, beh, idx, r) ==
  /\ r.send.status # "blocked"
  /\ conns' = [conns EXCEPT ![idx] = r.conn]
  /\ log' = [log EXCEPT ![idx] = Append(@, Request(r.send))]
  /\ last' = [Last("ExecuteTool", name, args, idx, beh, r) EXCEPT
                !.err = IF r.err = "" THEN "" ELSE "MCP tool failed: " \o r.err]

\* ExecuteTool on a registered name, routed to connection idx; r is what
\* CallTool returned.
ExecuteRouted(name, args, beh, idx, r) ==
  /\ r.send.status # "blocked"
  /\ conns' = [conns EXCEPT ![idx] = r.conn]
  /\ log' = [log EXCEPT ![idx] = Append(@, Request(r.send))]
  /\ last' = Last("ExecuteTool", name, args, idx, beh, r)

\* An ExecuteUnknown in which the lookup result is not checked, and the call
\* goes to the first connection there is.
ExecuteUnknown_Unchecked(name, args) ==
  /\ last' = [NoLast EXCEPT !.op = "ExecuteTool", !.name = name, !.args = args,
                            !.err = "unknown MCP tool: " \o name]
  /\ IF conns = <<>>
     THEN UNCHANGED <<conns, log>>
     ELSE /\ conns' = [conns EXCEPT ![1].requestID = NextID(@)]
          /\ log' = [log EXCEPT ![1] =
                       Append(@, [id |-> NextID(conns[1].requestID),
                                  method |-> "tools/call", tool |-> name,
                                  args |-> args, sent |-> FALSE,
                                  status |-> "writeerr"])]

\* ExecuteTool on a name the routing table does not hold.
ExecuteUnknown(name, args) ==
  /\ last' = [NoLast EXCEPT !.op = "ExecuteTool", !.name = name, !.args = args,
                            !.err = "unknown MCP tool: " \o name]
  /\ UNCHANGED <<conns, log>>

\* ExecuteTool(name, args); beh: what the routed server does during the call.
ExecuteTool(name, args, beh) ==
  /\ Idle
  /\ nops < MaxExec
  /\ nops' = nops + 1
  /\ IF name \notin DOMAIN toolToClient
     THEN beh = NoBehaviour /\ ExecuteUnknown(name, args)
     ELSE ExecuteRouted(name, args, beh, toolToClient[name],
                        CallTool(conns[toolToClient[name]], name, args, beh))
  /\ UNCHANGED <<clients, toolToClient, load, closed, mu, threads, emitted, chat>>

\* HasTool / GetToolServer: reads of the routing table.
HasTool(name) == name \in DOMAIN toolToClient
GetToolServer(name) ==
  IF name \in DOMAIN toolToClient THEN conns[toolToClient[name]].name ELSE ""

\* The calls of HasTool and GetToolServer: the answer is kept in the history.
HasToolCall(name) ==
  /\ Idle
  /\ last' = [NoLast EXCEPT !.op = "HasTool", !.name = name, !.found = HasTool(name)]
  /\ UNCHANGED <<conns, clients, toolToClient, load, nops, closed, log, mu,
                 threads, emitted, chat>>

GetToolServerCall(name) ==
  /\ Idle
  /\ last' = [NoLast EXCEPT !.op = "GetToolServer", !.name = name,
                            !.out = GetToolServer(name)]
  /\ UNCHANGED <<conns, clients, toolToClient, load, nops, closed, log, mu,
                 threads, emitted, chat>>

\* backend.Tool{Name, Description, Parameters} of an MCPTool.
BackendTool(t) == [Name |-> t.name, Description |-> t.description]

\* convertMCPToolToOllama.
OllamaTool(t) ==
  [Type |-> "function",
   Function |-> [Name |-> t.name, Description |-> t.description]]

\* A collection of the tools that stops after the first client.
AllTools_First(order) ==
  IF order = <<>> THEN <<>> ELSE conns[clients[Head(order)]].tools

\* The cached tools of the clients registered under the names of order, one
\* client after the other.
RECURSIVE AllTools(_)
AllTools(order) ==
  IF order = <<>> THEN <<>>
  ELSE conns[clients[Head(order)]].tools \o AllTools(Tail(order))

\* GetBackendTools: the tools of every client of m.clients, in the order in
\* which range visits the clients.
GetBackendTools(order) ==
  /\ Idle
  /\ order \in Orders(DOMAIN clients)
  /\ last' = [NoLast EXCEPT !.op = "GetBackendTools",
                !.tools = [k \in DOMAIN AllTools(order) |->
                             BackendTool(AllTools(order)[k])]]
  /\ UNCHANGED <<conns, clients, toolToClient, load, nops, closed, log, mu,
                 threads, emitted, chat>>

\* GetOllamaTools: the same tools, converted to the Ollama format.
GetOllamaTools(order) ==
  /\ Idle
  /\ order \in Orders(DOMAIN clients)
  /\ last' = [NoLast EXCEPT !.op = "GetOllamaTools",
                !.tools = [k \in DOMAIN AllTools(order) |->
                             OllamaTool(AllTools(order)[k])]]
  /\ UNCHANGED <<conns, clients, toolToClient, load, nops, closed, log, mu,
                 threads, emitted, chat>>

\* A Manager.Close that also empties the maps of the Manager.
ManagerClose_Clear ==
  /\ Idle
  /\ conns' = [i \in DOMAIN conns |->
                 IF i \in Range(clients) THEN Close(conns[i]) ELSE conns[i]]
  /\ closed' = closed \cup Range(clients)
  /\ clients' = EmptyMap
  /\ toolToClient' = EmptyMap
  /\ last' = [NoLast EXCEPT !.op = "Close"]
  /\ UNCHANGED <<load, nops, log, mu, threads, emitted, chat>>

\* Manager.Close: Close on every registered client.
ManagerClose ==
  /\ Idle
  /\ conns' = [i \in DOMAIN conns |->
                 IF i \in Range(clients) THEN Close(conns[i]) ELSE conns[i]]
  /\ closed' = closed \cup Range(clients)
  /\ last' = [NoLast EXCEPT !.op = "Close"]
  /\ UNCHANGED <<clients, toolToClient, load, nops, log, mu, threads, emitted, chat>>

\* The ServerInfo of the client c registered under name.
ServerInfo(name, c) ==
  [Name |-> name,
   Transport |-> IF c.kind = "http" THEN "http" ELSE "stdio",
   ToolCount |-> Len(c.tools),
   ToolNames |-> [k \in DOMAIN c.tools |-> c.tools[k].name]]

\* GetServers: one ServerInfo per entry of m.clients, in the order in which
\* range visits them.
GetServers(order) ==
  /\ Idle
  /\ order \in Orders(DOMAIN clients)
  /\ last' = [NoLast EXCEPT !.op = "GetServers",
                !.servers = [k \in DOMAIN order |->
                               ServerInfo(order[k], conns[clients[order[k]]])]]
  /\ UNCHANGED <<conns, clients, toolToClient, load, nops, closed, log, mu,
                 threads, emitted, chat>>

\* A process exit that the Manager notices, marking the connection closed.
ProcExit_Detected(i) ==
  /\ conns[i].kind = "stdio"
  /\ conns[i].proc = "running"
  /\ conns' = [conns EXCEPT ![i].proc = "exited"]
  /\ closed' = closed \cup {i}
  /\ UNCHANGED <<clients, toolToClient, load, nops, log, last, mu, threads, emitted, chat>>

\* The subprocess of a process connection exits by itself.
ProcExit(i) ==
  /\ conns[i].kind = "stdio"
  /\ conns[i].proc = "running"
  /\ conns' = [conns EXCEPT ![i].proc = "exited"]
  /\ UNCHANGED <<clients, toolToClient, load, nops, closed, log, last, mu, threads, emitted, chat>>

\* --------------------------------------------------------------------- Spec
\* The application's startup (initialModel): NewManager, then LoadFromConfig
\* once, on some configuration file.
Startup ==
  /\ load.runs = 0
  /\ \E f \in ConfigFiles, o \in UNION {Orders(S) : S \in SUBSET Servers} :
       LoadFromConfig(f, o)

KindOf(sc) == IF IsStdio(sc) THEN "stdio" ELSE "http"

\* The inputs of one iteration: whether the process starts, and what the
\* server does during initialize (request 1) and tools/list (request 2).
LoadStep ==
  /\ load.pc = "loop"
  /\ \E started \in BOOLEAN,
        b1 \in {NoBehaviour} \cup
               ServerBehaviours(KindOf(load.cfg[Head(load.todo)]), 1,
                                InitPayloads, ObjectResult, FALSE),
        b2 \in {NoBehaviour} \cup
               ServerBehaviours(KindOf(load.cfg[Head(load.todo)]), 2,
                                ListPayloads, ToolsResult(<<Tool("t1")>>), FALSE) :
       LoadServer(started, b1, b2)

\* The inputs of ExecuteTool: a name, arguments, and a behaviour of the server
\* the name is routed to.
ExecuteStep ==
  \E n \in ToolNames \cup {UnlistedTool}, a \in ArgValues :
    \E b \in (IF n \in DOMAIN toolToClient
              THEN CallBehaviours(conns[toolToClient[n]], a, FALSE)
              ELSE {NoBehaviour}) :
      ExecuteTool(n, a, b)

GetServersStep == \E order \in Orders(DOMAIN clients) : GetServers(order)

Next ==
  \/ Startup
  \/ LoadStep
  \/ ExecuteStep
  \/ GetServersStep
  \/ ManagerClose
  \/ \E i \in DOMAIN conns : ProcExit(i)

Spec == Init /\ [][Next]_vars

\* ----------------------------------------------------------------- WireSpec
\* Connections used directly, through the MCPClient interface: a process
\* connection and an HTTP connection, as their constructors return them.
WireTool == "t1"
WireArgs == "x1"
WireListPayloads == {ToolsResult(<<Tool("t1"), Tool("t2")>>), ObjectResult, ScalarResult}

WireInit ==
  /\ \E t \in {"sse", "http"} :
       conns = <<NewClient("s1"), NewHTTPClient("s2", ServerConfig(t, BaseURL))>>
  /\ clients = EmptyMap
  /\ toolToClient = EmptyMap
  /\ load = [pc |-> "idle", runs |-> 0, file |-> "", cfg |-> EmptyServers,
             order |-> <<>>, todo |-> <<>>, err |-> "", outcome |-> EmptyMap]
  /\ nops = 0
  /\ closed = {}
  /\ log = <<<<>>, <<>>>>
  /\ last = NoLast
  /\ mu = 0
  /\ threads = <<>>
  /\ emitted = 0
  /\ chat = NoChat

\* A method of connection i returns r to its caller.
Returned(op, i, name, args, beh, r) ==
  /\ nops < MaxWire
  /\ r.send.status # "blocked"
  /\ nops' = nops + 1
  /\ conns' = [conns EXCEPT ![i] = r.conn]
  /\ log' = [log EXCEPT ![i] = Append(@, Request(r.send))]
  /\ last' = Last(op, name, args, i, beh, r)
  /\ UNCHANGED <<clients, toolToClient, load, closed, mu, threads, emitted, chat>>

WInitialize(i, beh) ==
  Returned("Initialize", i, "", "", beh, Initialize(conns[i], beh))

WListTools(i, beh) ==
  Returned("ListTools", i, "", "", beh, ListTools(conns[i], beh))

WCallTool(i, name, args, beh) ==
  Returned("CallTool", i, name, args, beh, CallTool(conns[i], name, args, beh))

\* Close on connection i; the history notes whether it was closed before.
WClose(i) ==
  /\ conns' = [conns EXCEPT ![i] = Close(conns[i])]
  /\ closed' = closed \cup {i}
  /\ last' = [NoLast EXCEPT !.op = "Close", !.conn = i,
                !.status = IF i \in closed THEN "again" ELSE "first"]
  /\ UNCHANGED <<clients, toolToClient, load, nops, log, mu, threads, emitted, chat>>

WireNext ==
  \/ \E i \in DOMAIN conns :
       \E b \in Behaviours(conns[i], InitPayloads, ObjectResult, TRUE) :
         WInitialize(i, b)
  \/ \E i \in DOMAIN conns :
       \E b \in Behaviours(conns[i], WireListPayloads,
                           ToolsResult(<<Tool("t1"), Tool("t2")>>), TRUE) :
         WListTools(i, b)
  \/ \E i \in DOMAIN conns :
       \E b \in CallBehaviours(conns[i], WireArgs, TRUE) :
         WCallTool(i, WireTool, WireArgs, b)
  \/ \E i \in DOMAIN conns : WClose(i)
  \/ \E i \in DOMAIN conns : ProcExit(i)

WireSpec == WireInit /\ [][WireNext]_vars

\* --------------------------------------------------------------- ReloadSpec
\* The configuration documents of ReloadSpec: process servers, or a document
\* that is not JSON.
ReloadConfigs ==
  {ConfigFile("ok", m) :
     m \in UNION {[S -> {ServerConfig("", "")}] : S \in SUBSET Servers}} \cup
  {ConfigFile("malformed", EmptyServers)}

ReloadListPayloads == {ToolsResult(<<Tool("t1")>>), ToolsResult(<<Tool("t2")>>)}

\* LoadFromConfig is called again on a Manager that has loaded before.
Reload ==
  /\ load.runs < MaxLoads
  /\ \E f \in ReloadConfigs, o \in UNION {Orders(S) : S \in SUBSET Servers} :
       LoadFromConfig(f, o)

ReloadStep ==
  /\ load.pc = "loop"
  /\ \E started \in BOOLEAN,
        b1 \in {NoBehaviour} \cup
               ServerBehaviours("stdio", 1, InitPayloads, ObjectResult, FALSE),
        b2 \in {NoBehaviour} \cup
               ServerBehaviours("stdio", 2, ReloadListPayloads,
                                ToolsResult(<<Tool("t1")>>), FALSE) :
       LoadServer(started, b1, b2)

ReloadNext ==
  \/ Reload
  \/ ReloadStep
  \/ ManagerClose
  \/ \E i \in DOMAIN conns : ProcExit(i)

ReloadSpec == Init /\ [][ReloadNext]_vars

\* ---------------------------------------------------------------- ToolsSpec
\* The definition server gives of the tool n.
ToolOf(n, server) ==
  [name |-> n, description |-> "about " \o n \o " of " \o server]

\* The tool lists server may answer tools/list with.
ToolListsOf(server) ==
  { <<ToolOf("t1", server)>>, <<ToolOf("t2", server)>>,
    <<ToolOf("t1", server), ToolOf("t2", server)>> }

\* The configuration documents of ToolsSpec: a process server or an HTTP
\* server under each name.
ToolsConfigs ==
  {ConfigFile("ok", m) :
     m \in UNION {[S -> {ServerConfig("", ""), ServerConfig("http", BaseURL)}] :
                    S \in SUBSET Servers}}

ToolsStartup ==
  /\ load.runs = 0
  /\ \E f \in ToolsConfigs, o \in UNION {Orders(S) : S \in SUBSET Servers} :
       LoadFromConfig(f, o)

ToolsLoadStep ==
  /\ load.pc = "loop"
  /\ \E started \in BOOLEAN,
        b1 \in {NoBehaviour} \cup
               ServerBehaviours(KindOf(load.cfg[Head(load.todo)]), 1,
                                InitPayloads, ObjectResult, FALSE),
        b2 \in {NoBehaviour} \cup
               ServerBehaviours(KindOf(load.cfg[Head(load.todo)]), 2,
                                {ToolsResult(ts) : ts \in ToolListsOf(Head(load.todo))},
                                ToolsResult(<<ToolOf("t1", Head(load.todo))>>), FALSE) :
       LoadServer(started, b1, b2)

HasToolStep == \E n \in ToolNames \cup {UnlistedTool} : HasToolCall(n)

GetToolServerStep == \E n \in ToolNames \cup {UnlistedTool} : GetToolServerCall(n)

GetBackendToolsStep == \E order \in Orders(DOMAIN clients) : GetBackendTools(order)

GetOllamaToolsStep == \E order \in Orders(DOMAIN clients) : GetOllamaTools(order)

ToolsNext ==
  \/ ToolsStartup
  \/ ToolsLoadStep
  \/ ExecuteStep
  \/ HasToolStep
  \/ GetToolServerStep
  \/ GetServersStep
  \/ GetBackendToolsStep
  \/ GetOllamaToolsStep
  \/ ManagerClose
  \/ \E i \in DOMAIN conns : ProcExit(i)

ToolsSpec == Init /\ [][ToolsNext]_vars

\* ----------------------------------------------------------------- ConcSpec
\* One process connection shared by NCallers goroutines that each call
\* sendRequest once, and one goroutine that calls Close. sendRequest and Close
\* are broken at the points where they block: Lock, and ReadBytes.
Callers == 1..NCallers
Closer == NCallers + 1

Thread(pc, id, attempt, status, resp) ==
  [pc |-> pc, id |-> id, attempt |-> attempt, status |-> status, resp |-> resp]

ConcInit ==
  /\ conns = <<NewClient("s1")>>
  /\ clients = EmptyMap
  /\ toolToClient = EmptyMap
  /\ load = [pc |-> "idle", runs |-> 0, file |-> "", cfg |-> EmptyServers,
             order |-> <<>>, todo |-> <<>>, err |-> "", outcome |-> EmptyMap]
  /\ nops = 0
  /\ closed = {}
  /\ log = <<<<>>>>
  /\ last = NoLast
  /\ mu = 0
  /\ threads = [t \in 1..Closer |-> Thread("idle", 0, 0, "", NoLine)]
  /\ emitted = 0
  /\ chat = NoChat

\* What ConcSpec never touches.
seqVars == <<clients, toolToClient, load, nops, log, last>>

\* Goroutine t enters sendRequest, or the closer enters Close.
Enter(t) ==
  /\ threads[t].pc = "idle"
  /\ threads' = [threads EXCEPT ![t].pc = "lock"]
  /\ UNCHANGED <<conns, closed, mu, emitted, chat, seqVars>>

\* A Lock that does not exclude.
SendLock_NoMutex(t) ==
  /\ threads[t].pc = "lock"
  /\ mu' = t
  /\ threads' = [threads EXCEPT ![t].pc = "write"]
  /\ UNCHANGED <<conns, closed, emitted, chat, seqVars>>

\* c.mu.Lock() in sendRequest returns.
SendLock(t) ==
  /\ threads[t].pc = "lock"
  /\ mu = 0
  /\ mu' = t
  /\ threads' = [threads EXCEPT ![t].pc = "write"]
  /\ UNCHANGED <<conns, closed, emitted, chat, seqVars>>

\* sendRequest returns status (and resp on "ok"); the deferred Unlock runs.
SendReturn(t, status, resp) ==
  /\ threads' = [threads EXCEPT ![t].pc = "done", ![t].status = status,
                                ![t].resp = resp]
  /\ mu' = 0

\* The id is taken and the request written; Write blocks while the pipe is
\* open and full.
SendWrite(t) ==
  /\ threads[t].pc = "write"
  /\ CanWrite(conns[1]) => conns[1].stdinRoom
  /\ conns' = [conns EXCEPT ![1].requestID = NextID(@)]
  /\ IF CanWrite(conns[1])
     THEN /\ threads' = [threads EXCEPT ![t].pc = "read",
                                        ![t].id = NextID(conns[1].requestID)]
          /\ UNCHANGED mu
     ELSE /\ threads' = [threads EXCEPT ![t].pc = "done", ![t].status = "writeerr",
                                        ![t].id = NextID(conns[1].requestID)]
          /\ mu' = 0
  /\ UNCHANGED <<closed, emitted, chat, seqVars>>

\* A read loop that does not count the lines it skips.
SendRead_NoCount(t) ==
  /\ threads[t].pc = "read"
  /\ IF conns[1].stdout # <<>>
     THEN /\ conns' = [conns EXCEPT ![1].stdout = Tail(@)]
          /\ IF Classify(Head(conns[1].stdout), threads[t].id) = "skip"
             THEN UNCHANGED <<threads, mu>>
             ELSE IF Classify(Head(conns[1].stdout), threads[t].id) = "ok"
             THEN SendReturn(t, "ok", Head(conns[1].stdout))
             ELSE SendReturn(t, "rpcerr", NoLine)
     ELSE /\ conns[1].proc # "running"
          /\ SendReturn(t, "readerr", NoLine)
          /\ UNCHANGED conns
  /\ UNCHANGED <<closed, emitted, chat, seqVars>>

\* One turn of the read loop: ReadBytes returns a line or an error, or the
\* attempts are used up. With nothing to read and the process alive,
\* ReadBytes blocks and the step is not enabled.
SendRead(t) ==
  /\ threads[t].pc = "read"
  /\ IF threads[t].attempt >= maxAttempts
     THEN SendReturn(t, "exhausted", NoLine) /\ UNCHANGED conns
     ELSE IF conns[1].stdout # <<>>
     THEN /\ conns' = [conns EXCEPT ![1].stdout = Tail(@)]
          /\ IF Classify(Head(conns[1].stdout), threads[t].id) = "skip"
             THEN /\ threads' = [threads EXCEPT ![t].attempt = @ + 1]
                  /\ UNCHANGED mu
             ELSE IF Classify(Head(conns[1].stdout), threads[t].id) = "ok"
             THEN SendReturn(t, "ok", Head(conns[1].stdout))
             ELSE SendReturn(t, "rpcerr", NoLine)
     ELSE /\ conns[1].proc # "running"
          /\ SendReturn(t, "readerr", NoLine)
          /\ UNCHANGED conns
  /\ UNCHANGED <<closed, emitted, chat, seqVars>>

\* c.mu.Lock() in Close returns.
CloseLock ==
  /\ threads[Closer].pc = "lock"
  /\ mu = 0
  /\ mu' = Closer
  /\ threads' = [threads EXCEPT ![Closer].pc = "kill"]
  /\ UNCHANGED <<conns, closed, emitted, chat, seqVars>>

\* The rest of Close: stdin closed, the process killed and waited for, nil
\* returned, the deferred Unlock.
CloseRun ==
  /\ threads[Closer].pc = "kill"
  /\ conns' = [conns EXCEPT ![1] = Close(@)]
  /\ closed' = closed \cup {1}
  /\ mu' = 0
  /\ threads' = [threads EXCEPT ![Closer].pc = "done"]
  /\ UNCHANGED <<emitted, chat, seqVars>>

\* The ids of the requests that were written to the server.
Written == {threads[t].id : t \in {u \in Callers : threads[u].pc \in {"read", "done"}
                                                 /\ threads[u].status # "writeerr"}}

\* The lines the server may write: notifications, and answers and errors to
\* requests it has received, in any order and any number of times.
ServerLines ==
  {Notification} \cup {Response(i, ObjectResult) : i \in Written}
                 \cup {ErrorResponse(i) : i \in Written}

\* The server writes a line to its stdout.
ServerEmit(line) ==
  /\ conns[1].proc = "running"
  /\ emitted < MaxLines
  /\ emitted' = emitted + 1
  /\ conns' = [conns EXCEPT ![1].stdout = Append(@, line)]
  /\ UNCHANGED <<closed, mu, threads, chat, seqVars>>

ConcNext ==
  \/ \E t \in 1..Closer : Enter(t)
  \/ \E t \in Callers : SendLock(t)
  \/ \E t \in Callers : SendWrite(t)
  \/ \E t \in Callers : SendRead(t)
  \/ CloseLock
  \/ CloseRun
  \/ \E line \in ServerLines : ServerEmit(line)
  \/ ProcExit(1)

ConcSpec == ConcInit /\ [][ConcNext]_vars

\* The Go scheduler runs every goroutine that can take a step, and a
\* sync.Mutex hands the lock to a goroutine that keeps waiting for it. The
\* server is not obliged to write anything, nor to exit.
Fairness ==
  /\ \A t \in Callers : SF_vars(SendLock(t))
  /\ \A t \in Callers : WF_vars(SendWrite(t))
  /\ \A t \in Callers : WF_vars(SendRead(t))
  /\ SF_vars(CloseLock)
  /\ WF_vars(CloseRun)

FairConcSpec == ConcSpec /\ Fairness

\* ----------------------------------------------------------------- LiveSpec
\* A goroutine is in ReadBytes with nothing to read.
ReaderWaits ==
  /\ \E t \in Callers : threads[t].pc = "read" /\ threads[t].attempt < maxAttempts
  /\ conns[1].stdout = <<>>

\* The server writes a line while a reader waits for one.
ServerFeed(line) ==
  /\ conns[1].proc = "running"
  /\ ReaderWaits
  /\ conns' = [conns EXCEPT ![1].stdout = Append(@, line)]
  /\ UNCHANGED <<closed, mu, threads, emitted, chat, seqVars>>

\* The server stops reading its stdin, and the pipe is full.
ServerStalls ==
  /\ conns[1].proc = "running"
  /\ conns[1].stdinRoom
  /\ conns' = [conns EXCEPT ![1].stdinRoom = FALSE]
  /\ UNCHANGED <<closed, mu, threads, emitted, chat, seqVars>>

\* The server reads its stdin again.
ServerDrains ==
  /\ conns[1].proc = "running"
  /\ ~conns[1].stdinRoom
  /\ conns' = [conns EXCEPT ![1].stdinRoom = TRUE]
  /\ UNCHANGED <<closed, mu, threads, emitted, chat, seqVars>>

\* The configuration of LiveSpec: one process server, the one of conns[1].
LiveConfig == ConfigFile("ok", [n \in {"s1"} |-> ServerConfig("", "")])

LiveStartup ==
  /\ load.runs = 0
  /\ LoadFromConfig(LiveConfig, <<"s1">>)

\* The goroutine that runs LoadFromConfig.  In LiveSpec the iteration of its
\* loop is broken at the points where sendRequest blocks.
Loader == 1

\* What the log keeps of the call of the loader that has returned.
LoaderRequest(method) ==
  [id |-> threads[Loader].id, method |-> method, tool |-> "", args |-> "",
   sent |-> threads[Loader].status # "writeerr", status |-> threads[Loader].status]

\* The loader has a client and enters client.Initialize.
LoaderInitialize ==
  /\ load.pc = "loop"
  /\ log[1] = <<>>
  /\ Enter(Loader)

\* Initialize returned nil, and the loader enters client.ListTools.
LoaderListTools ==
  /\ load.pc = "loop"
  /\ log[1] = <<>>
  /\ threads[Loader].pc = "done"
  /\ threads[Loader].status = "ok"
  /\ log' = [log EXCEPT ![1] = <<LoaderRequest("initialize")>>]
  /\ threads' = [threads EXCEPT ![Loader] = Thread("lock", 0, 0, "", NoLine)]
  /\ UNCHANGED <<conns, clients, toolToClient, load, nops, closed, last, mu, emitted, chat>>

\* Initialize or ListTools returned an error: the warning, client.Close()
\* (which takes c.mu), continue; the loop has no other server.
LoaderFails ==
  /\ load.pc = "loop"
  /\ threads[Loader].pc = "done"
  /\ \/ threads[Loader].status # "ok"
     \/ log[1] # <<>> /\ ~ResultParses(threads[Loader].resp.result)
  /\ mu = 0
  /\ conns' = [conns EXCEPT ![1] = Close(@)]
  /\ closed' = closed \cup {1}
  /\ log' = [log EXCEPT ![1] =
               Append(@, LoaderRequest(IF log[1] = <<>> THEN "initialize"
                                                        ELSE "tools/list"))]
  /\ load' = [load EXCEPT !.pc = "done", !.todo = <<>>]
  /\ UNCHANGED <<clients, toolToClient, nops, last, mu, threads, emitted, chat>>

\* ListTools returned the tools: the client and its tools are registered,
\* and LoadFromConfig returns nil.
LoaderRegisters ==
  /\ load.pc = "loop"
  /\ log[1] # <<>>
  /\ threads[Loader].pc = "done"
  /\ threads[Loader].status = "ok"
  /\ ResultParses(threads[Loader].resp.result)
  /\ conns' = [conns EXCEPT ![1].tools = threads[Loader].resp.result.tools]
  /\ clients' = Put(clients, "s1", 1)
  /\ toolToClient' = MergeTools(toolToClient, threads[Loader].resp.result.tools, 1)
  /\ log' = [log EXCEPT ![1] = Append(@, LoaderRequest("tools/list"))]
  /\ load' = [load EXCEPT !.pc = "done", !.todo = <<>>]
  /\ threads' = [threads EXCEPT ![Loader] = Thread("idle", 0, 0, "", NoLine)]
  /\ UNCHANGED <<nops, closed, last, mu, emitted, chat>>

\* The lines the server of LiveSpec writes: notifications, and answers to
\* the requests it has received, with a tool list or, to the requests of
\* LoadFromConfig, with a value that is no object.
LiveLines ==
  {Notification}
    \cup {Response(i, ToolsResult(<<Tool("t1")>>)) : i \in Written}
    \cup {Response(i, ScalarResult) : i \in IF load.pc = "loop" THEN Written ELSE {}}

\* The application makes its calls after LoadFromConfig has returned, on a
\* client that was registered.
LiveEnter(t) ==
  /\ load.pc = "done"
  /\ "s1" \in DOMAIN clients
  /\ Enter(t)

\* The server writes a line or exits while a reader waits.
ServerActs ==
  ReaderWaits /\ ((\E line \in LiveLines : ServerFeed(line)) \/ ProcExit(1))

LiveNext ==
  \/ LiveStartup
  \/ LoaderInitialize
  \/ LoaderListTools
  \/ LoaderFails
  \/ LoaderRegisters
  \/ \E t \in Callers : LiveEnter(t)
  \/ \E t \in Callers : SendLock(t)
  \/ \E t \in Callers : SendWrite(t)
  \/ \E t \in Callers : SendRead(t)
  \/ \E line \in LiveLines : ServerFeed(line)
  \/ ServerStalls
  \/ ServerDrains
  \/ ProcExit(1)

\* The goroutines are scheduled and the mutex is handed on, as in
\* FairConcSpec; a Write that waits for room in the pipe returns when there
\* is room; LoadFromConfig runs on; and a server on whose output a reader
\* waits writes a line or exits.  The server is not obliged to read its
\* input.
LiveFairness ==
  /\ \A t \in Callers : SF_vars(SendLock(t))
  /\ \A t \in Callers : SF_vars(SendWrite(t))
  /\ \A t \in Callers : WF_vars(SendRead(t))
  /\ WF_vars(LoaderInitialize)
  /\ WF_vars(LoaderListTools)
  /\ WF_vars(LoaderFails)
  /\ WF_vars(LoaderRegisters)
  /\ WF_vars(ServerActs)

LiveSpec == ConcInit /\ [][LiveNext]_vars /\ LiveFairness

\* ------------------------------------------------------------------ CmdSpec
\* ParseCommand, IsCommand and Execute of the registry NewCommandRegistry
\* returns, called on one input line.
CmdChars == {"/", " ", "m", "c", "p", "M"}
Inputs == UNION {[1..k -> CmdChars] : k \in 0..MaxInput}

\* What the chat program leaves alone.
mcpVars == <<conns, clients, toolToClient, load, nops, closed, log, last, mu,
             threads, emitted>>

CmdInit ==
  /\ conns = <<>>
  /\ clients = EmptyMap
  /\ toolToClient = EmptyMap
  /\ load = [pc |-> "idle", runs |-> 0, file |-> "", cfg |-> EmptyServers,
             order |-> <<>>, todo |-> <<>>, err |-> "", outcome |-> EmptyMap]
  /\ nops = 0
  /\ closed = {}
  /\ log = <<>>
  /\ last = NoLast
  /\ mu = 0
  /\ threads = <<>>
  /\ emitted = 0
  /\ \E i \in Inputs : chat = [NoChat EXCEPT !.call.input = i]

ParseCommandCall ==
  /\ chat' = [chat EXCEPT !.call =
                [NoCall EXCEPT !.op = "ParseCommand", !.input = chat.call.input,
                               !.parsed = ParseCommand(chat.call.input)]]
  /\ UNCHANGED mcpVars

IsCommandCall ==
  /\ chat' = [chat EXCEPT !.call =
                [NoCall EXCEPT !.op = "IsCommand", !.input = chat.call.input,
                               !.is = IsCommand(chat.call.input)]]
  /\ UNCHANGED mcpVars

ExecuteCall ==
  /\ chat' = [chat EXCEPT !.call =
                [NoCall EXCEPT !.op = "Execute", !.input = chat.call.input,
                               !.exec = Execute(chat.call.input)]]
  /\ UNCHANGED mcpVars

CmdNext == ParseCommandCall \/ IsCommandCall \/ ExecuteCall

CmdSpec == CmdInit /\ [][CmdNext]_vars

\* ----------------------------------------------------------------- ChatSpec
\* The chat program: initialModel after a LoadFromConfig of one process
\* server, then the handlers of Update and the commands they start.
ChatConfig == ConfigFile("ok", [n \in {"s1"} |-> ServerConfig("", "")])

\* What the server may answer tools/list with: its own tool, or its own tool
\* and one that bears the name of a built-in tool.
ChatToolLists == {<<Tool("t1")>>, <<Tool("read"), Tool("t1")>>}

ChatStartup ==
  /\ load.runs = 0
  /\ ~chat.started
  /\ LoadFromConfig(ChatConfig, <<"s1">>)

ChatLoadStep ==
  /\ load.pc = "loop"
  /\ \E b2 \in {StdioBehaviour(<<Response(2, ToolsResult(ts))>>, FALSE) :
                  ts \in ChatToolLists} \cup {StdioBehaviour(<<>>, TRUE)} :
       LoadServer(TRUE, StdioBehaviour(<<Response(1, ObjectResult)>>, FALSE), b2)

\* The name of the model at startup.
DefaultModel == <<"m0">>

\* initialModel, after LoadFromConfig has returned.
InitialModel ==
  /\ load.pc = "done"
  /\ ~chat.started
  /\ \E order \in Orders(DOMAIN clients) :
       chat' = [NoChat EXCEPT
                  !.started = TRUE,
                  !.messages = <<SystemPrompt>>,
                  !.modelName = DefaultModel,
                  !.tools = BuiltinTools \o
                            [k \in DOMAIN AllTools(order) |->
                               OllamaTool(AllTools(order)[k]).Function.Name]]
  /\ UNCHANGED mcpVars

\* A line of m.conversation.
Shown(prefix, text) == <<prefix>> \o text

\* A call of client.Chat that has not delivered its streamDoneMsg: the
\* channel it sends on, the request, the commands that wait on the channel,
\* and the content it has sent as a chunk.
ChatRequest(ch, m) ==
  [ch |-> ch, model |-> m.modelName, msgs |-> m.messages, waiters |-> 1,
   sent |-> <<>>]

\* The end of the Enter and toolExecutionMsg branches: a new channel, and
\* tea.Batch(m.sendMessage(), waitForStreamChunk(m.streamChan)).
SendMessage(m) ==
  [m EXCEPT !.waiting = TRUE, !.streaming = TRUE, !.currentResponse = <<>>,
            !.streamChan = m.nreq + 1, !.nreq = m.nreq + 1,
            !.requests = Append(@, ChatRequest(m.nreq + 1, m))]

\* The Enter branch on a slash command, which adds the command to the LLM
\* history as well.
RunCommand_Logged(m, input) ==
  [m EXCEPT !.messages = Append(@, Message("user", input, <<>>, "")),
            !.conversation = @ \o <<Shown("Command: ", input)>>]

\* The Enter branch on a slash command.
RunCommand(m, input) ==
  IF ToLower(ParseCommand(input).name) = <<"m", "o", "d", "e", "l">>
     /\ ParseCommand(input).args # <<>>
  THEN [m EXCEPT !.modelName = ParseCommand(input).args[1],
                 !.conversation = @ \o
                   <<Shown("Command: ", input),
                     Shown("System: Model changed to: ",
                           ParseCommand(input).args[1])>>]
  ELSE [m EXCEPT !.conversation = @ \o
                   <<Shown("Command: ", input),
                     IF Execute(input).err # <<>>
                     THEN Shown("Error: ", Execute(input).err)
                     ELSE Shown("System: ", Execute(input).out)>>]

\* The Enter branch on any other input.
SendUser(m, input) ==
  SendMessage([m EXCEPT !.messages = Append(@, Message("user", input, <<>>, "")),
                        !.conversation = Append(@, Shown("You: ", input))])

\* An Enter branch without the check of m.waiting.
OnEnter_NoWaitingCheck(m, input) ==
  IF TrimSpace(input) = <<>> THEN m
  ELSE IF IsCommand(TrimSpace(input)) THEN RunCommand(m, TrimSpace(input))
  ELSE SendUser(m, TrimSpace(input))

\* case tea.KeyEnter of Update, on the model m with the text input holding
\* input.
OnEnter(m, input) ==
  IF m.waiting \/ TrimSpace(input) = <<>> THEN m
  ELSE IF IsCommand(TrimSpace(input)) THEN RunCommand(m, TrimSpace(input))
  ELSE SendUser(m, TrimSpace(input))

\* What the user may have typed when Enter is pressed.
ChatInputs ==
  { <<" ", "/", "M", "c", "p", " ">>,
    <<"/", "m", "o", "d", "e", "l", " ", "x">>, <<"/", "n", "o">>,
    <<"h", "i">>, <<" ">> }

\* The Enter key.  A request is started only while the bound on the requests
\* leaves room for it and for the continuations of the tool runs under way.
KeyEnter(input) ==
  /\ chat.started
  /\ chat.enters < MaxEnters
  /\ OnEnter(chat, input).nreq + Len(chat.runs) <= MaxRequests
  /\ chat' = [OnEnter(chat, input) EXCEPT !.enters = @ + 1, !.entered = input]
  /\ UNCHANGED mcpVars

\* What client.Chat delivers at its end: the content and the tool calls of
\* the assistant message, or an error.
Reply(content, calls, err) == [content |-> content, calls |-> calls, err |-> err]

\* A tool call written as JSON in the text of a response.
JSONText(name, args) ==
  "{\"name\": \"" \o name \o "\", \"parameters\": " \o MarshalArgs(args) \o "}"

\* The names the LLM may call: a built-in tool, the tool of the server, and
\* a tool there is not.
ChatCallNames == {"read", "t1", "nope"}

\* The id parseJSONToolCalls gives to match i.
ManualID(i) == "manual_call_" \o ToString(i)

\* The pieces of a content that jsonPattern matches.
IsJSONCall(piece) ==
  \E n \in ChatCallNames, a \in ArgValues : piece = JSONText(n, a)
JSONName(piece) ==
  CHOOSE n \in ChatCallNames : \E a \in ArgValues : piece = JSONText(n, a)
JSONArgs(piece) ==
  CHOOSE a \in ArgValues : \E n \in ChatCallNames : piece = JSONText(n, a)

\* parseJSONToolCalls, from match i on.
RECURSIVE parseJSONFrom(_, _)
parseJSONFrom(content, i) ==
  IF content = <<>> THEN <<>>
  ELSE IF IsJSONCall(Head(content))
  THEN <<ToolCall(ManualID(i), JSONName(Head(content)), JSONArgs(Head(content)))>>
       \o parseJSONFrom(Tail(content), i + 1)
  ELSE parseJSONFrom(Tail(content), i)

parseJSONToolCalls(content) == parseJSONFrom(content, 0)

\* The contents a response may stream, and the tool calls it may carry.
ChunkContents == {<<"hi">>, <<"I run ", JSONText("t1", "x1")>>}
ChatCallLists ==
  { <<>>,
    <<ToolCall("c1", "t1", "x1"), ToolCall("c2", "read", "x2")>>,
    <<ToolCall("c1", "nope", "x1"), ToolCall("c2", "t1", "x2")>> }

\* What the request r may end with.
Replies(r) ==
  {Reply(r.sent, calls, "") : calls \in ChatCallLists} \cup
  {Reply(<<>>, <<>>, "chat failed")}

\* A sequence without its element k.
Remove(s, k) == [i \in 1..(Len(s) - 1) |-> IF i < k THEN s[i] ELSE s[i + 1]]

\* case streamChunkMsg of Update.
OnStreamChunk(m, content) == [m EXCEPT !.currentResponse = @ \o content]

\* The callback of client.Chat on a response with content: request k sends
\* the chunk to the command that waits on its channel, and Update handles it.
\* The handler waits again on m.streamChan, whichever channel that is.
StreamChunk(k, content) ==
  /\ chat.started
  /\ k \in DOMAIN chat.requests
  /\ chat.requests[k].waiters > 0
  /\ chat.requests[k].sent = <<>>
  /\ chat' = [OnStreamChunk(chat, content) EXCEPT
                !.requests =
                  [j \in DOMAIN chat.requests |->
                     [chat.requests[j] EXCEPT
                        !.sent = IF j = k THEN content ELSE @,
                        !.waiters = @ - (IF j = k THEN 1 ELSE 0)
                                      + (IF chat.streamChan = chat.requests[j].ch
                                         THEN 1 ELSE 0)]]]
  /\ UNCHANGED mcpVars

\* The tool calls the streamDoneMsg branch executes.
ToolCallsOf(reply) ==
  IF reply.calls = <<>> /\ reply.content # <<>>
  THEN parseJSONToolCalls(reply.content)
  ELSE reply.calls

\* An executeTools command under way: its tool calls and the results so far.
ToolRun(calls) == [calls |-> calls, results |-> <<>>]

\* case streamDoneMsg of Update.
OnStreamDone(m, reply) ==
  IF reply.err # ""
  THEN [m EXCEPT !.waiting = FALSE, !.streaming = FALSE, !.streamChan = 0,
                 !.conversation = Append(@, Shown("Error: ", <<reply.err>>)),
                 !.currentResponse = <<>>]
  ELSE IF ToolCallsOf(reply) # <<>>
  THEN [m EXCEPT !.waiting = FALSE, !.streaming = FALSE, !.streamChan = 0,
                 !.messages =
                   Append(@, Message("assistant", reply.content, reply.calls, "")),
                 !.conversation =
                   @ \o (IF reply.content # <<>>
                         THEN <<Shown("Assistant: ", reply.content)>> ELSE <<>>)
                     \o [i \in DOMAIN ToolCallsOf(reply) |->
                           <<"[Calling tool: ", ToolCallsOf(reply)[i].Name,
                             " with args: ", ToolCallsOf(reply)[i].Arguments, "]">>],
                 !.runs = Append(@, ToolRun(ToolCallsOf(reply)))]
  ELSE [m EXCEPT !.waiting = FALSE, !.streaming = FALSE, !.streamChan = 0,
                 !.messages =
                   Append(@, Message("assistant", reply.content, reply.calls, "")),
                 !.conversation = Append(@, Shown("Assistant: ", reply.content)),
                 !.currentResponse = <<>>]

\* The end of request k: its goroutine sends the streamDoneMsg to the command
\* that waits on its channel, and Update handles it.
StreamDone(k, reply) ==
  /\ chat.started
  /\ k \in DOMAIN chat.requests
  /\ chat.requests[k].waiters > 0
  /\ reply \in Replies(chat.requests[k])
  /\ (ToolCallsOf(reply) # <<>> /\ reply.err = ""
        => chat.nreq + Len(chat.runs) < MaxRequests)
  /\ chat' = [OnStreamDone(chat, reply) EXCEPT !.requests = Remove(@, k)]
  /\ UNCHANGED mcpVars

\* What a tool returned: an output, or an error (err is "" for nil).
ToolOutcome(out, err) == [out |-> out, err |-> err]

\* executeTool: the built-in tools by name; what a built-in tool does to the
\* file system decides whether it fails.
executeTool(name) ==
  IF name \in Range(BuiltinTools)
  THEN {ToolOutcome("output of " \o name, ""), ToolOutcome("", name \o " failed")}
  ELSE {ToolOutcome("", "unknown tool: " \o name)}

\* A tool message that does not carry the id of its call.
ToolMessage_NoID(call, o) ==
  Message("tool",
          IF o.err # ""
          THEN <<"Error executing ", call.Name, ": ", o.err,
                 "\nDebug: Executing tool: ", call.Name, " with args: ",
                 call.Arguments>>
          ELSE <<o.out>>,
          <<>>, "")

\* The message executeTools appends to its results for a tool call.
ToolMessage(call, o) ==
  Message("tool",
          IF o.err # ""
          THEN <<"Error executing ", call.Name, ": ", o.err,
                 "\nDebug: Executing tool: ", call.Name, " with args: ",
                 call.Arguments>>
          ELSE <<o.out>>,
          <<>>, call.ID)

\* What the server may do during a tools/call of the chat program: answer
\* with the arguments as text, answer with a result flagged isError, or exit.
ChatCallBehaviours(c, args) ==
  IF ~CanWrite(c) THEN {NoBehaviour}
  ELSE { StdioBehaviour(<<Response(NextID(c.requestID), Echo(args))>>, FALSE),
         StdioBehaviour(<<Response(NextID(c.requestID),
                                   ContentResult(<<TextBlock("boom")>>, TRUE))>>,
                        FALSE),
         StdioBehaviour(<<>>, TRUE) }

\* The tool call the run is at.
CurrentCall(run) == run.calls[Len(run.results) + 1]

\* One iteration of the loop of executeTools, in run k: a name the manager
\* has goes to ExecuteTool, any other name to executeTool.
ToolStep(k) ==
  /\ chat.started
  /\ k \in DOMAIN chat.runs
  /\ Len(chat.runs[k].results) < Len(chat.runs[k].calls)
  /\ IF HasTool(CurrentCall(chat.runs[k]).Name)
     THEN /\ \E beh \in ChatCallBehaviours(
                          conns[toolToClient[CurrentCall(chat.runs[k]).Name]],
                          CurrentCall(chat.runs[k]).Arguments) :
               ExecuteRouted(CurrentCall(chat.runs[k]).Name,
                             CurrentCall(chat.runs[k]).Arguments, beh,
                             toolToClient[CurrentCall(chat.runs[k]).Name],
                             CallTool(conns[toolToClient[CurrentCall(chat.runs[k]).Name]],
                                      CurrentCall(chat.runs[k]).Name,
                                      CurrentCall(chat.runs[k]).Arguments, beh))
          /\ chat' = [chat EXCEPT !.runs[k].results =
                        Append(@, ToolMessage(CurrentCall(chat.runs[k]),
                                              ToolOutcome(last'.out, last'.err)))]
          /\ UNCHANGED <<clients, toolToClient, load, nops, closed, mu, threads,
                         emitted>>
     ELSE /\ \E o \in executeTool(CurrentCall(chat.runs[k]).Name) :
               chat' = [chat EXCEPT !.runs[k].results =
                          Append(@, ToolMessage(CurrentCall(chat.runs[k]), o))]
          /\ UNCHANGED mcpVars

\* case toolExecutionMsg of Update.
OnToolExecution(m, results) ==
  SendMessage([m EXCEPT
                 !.messages = @ \o results,
                 !.conversation =
                   @ \o [i \in DOMAIN results |->
                           Shown("Tool Result " \o ToString(i) \o ": ",
                                 results[i].Content)]])

\* The end of run k: executeTools returns the toolExecutionMsg, and Update
\* handles it.
ToolsDone(k) ==
  /\ chat.started
  /\ k \in DOMAIN chat.runs
  /\ Len(chat.runs[k].results) = Len(chat.runs[k].calls)
  /\ chat' = [OnToolExecution(chat, chat.runs[k].results) EXCEPT
                !.runs = Remove(@, k)]
  /\ UNCHANGED mcpVars

ChatNext ==
  \/ ChatStartup
  \/ ChatLoadStep
  \/ InitialModel
  \/ \E input \in ChatInputs : KeyEnter(input)
  \/ \E k \in 1..MaxRequests, content \in ChunkContents : StreamChunk(k, content)
  \/ \E k \in 1..MaxRequests :
       \E reply \in (IF k \in DOMAIN chat.requests
                     THEN Replies(chat.requests[k]) ELSE {}) :
         StreamDone(k, reply)
  \/ \E k \in 1..MaxRequests : ToolStep(k)
  \/ \E k \in 1..MaxRequests : ToolsDone(k)

ChatSpec == Init /\ [][ChatNext]_vars

\* ------------------------------------------------------- claims under Spec
\* The names of a tool list.
Names(tools) == {tools[k].name : k \in DOMAIN tools}

\* The iteration for a server failed at some stage: unsupported type, start
\* (no client created), initialize, or tools/list.
Failed(o) == ~o.supported \/ ~o.created \/ o.initErr # "" \/ o.listErr # ""

FailedServers == {n \in DOMAIN load.outcome : Failed(load.outcome[n])}
Survivors == DOMAIN load.outcome \ FailedServers

\* LoadFromConfig has returned nil from its one run on the fresh Manager.
Loaded == load.pc = "done" /\ load.runs = 1 /\ load.err = ""

\* C1: after one LoadFromConfig on a fresh Manager over N configured servers
\* of which k failed at some stage, exactly N-k connections are registered,
\* and every key of the routing table is a tool that tools/list of a
\* surviving server returned and is routed to a survivor's connection.
C1_SurvivorsOnly ==
  Loaded =>
    /\ DOMAIN load.outcome = DOMAIN load.cfg
    /\ Cardinality(DOMAIN clients) =
         Cardinality(DOMAIN load.cfg) - Cardinality(FailedServers)
    /\ DOMAIN clients = Survivors
    /\ \A t \in DOMAIN toolToClient :
         \E n \in Survivors :
           /\ t \in Names(load.outcome[n].tools)
           /\ toolToClient[t] = clients[n]
    /\ \A n \in FailedServers, t \in DOMAIN toolToClient :
         toolToClient[t] # load.outcome[n].conn

\* Two servers were configured, one failed after its client was created, and
\* the other one's tools are routable.
C1_Witness ==
  /\ Loaded
  /\ Cardinality(DOMAIN load.cfg) = 2
  /\ Cardinality(FailedServers) = 1
  /\ \E n \in FailedServers : load.outcome[n].created
  /\ DOMAIN toolToClient # {}

\* Server n was processed before server m in the run.
Before(n, m) ==
  \E i, j \in DOMAIN load.order : i < j /\ load.order[i] = n /\ load.order[j] = m

\* Both n and m were registered in the run and both listed tool t.
Collide(n, m, t) ==
  /\ n \in Survivors /\ m \in Survivors /\ n # m
  /\ t \in Names(load.outcome[n].tools) \cap Names(load.outcome[m].tools)

\* C2: when two connections registered in the same run both list a tool, the
\* routing table maps the tool to the one processed later; GetToolServer
\* names it, and ExecuteTool calls it and not the earlier one.
C2_LastWriterWins ==
  \A n, m \in DOMAIN load.outcome, t \in ToolNames :
    (Collide(n, m, t) /\ Before(n, m)) =>
      /\ t \in DOMAIN toolToClient
      /\ toolToClient[t] = clients[m]
      /\ toolToClient[t] # clients[n]
      /\ GetToolServer(t) = m
      /\ (last.op = "ExecuteTool" /\ last.name = t) => last.conn = clients[m]
      /\ \A k \in DOMAIN log[clients[n]] : log[clients[n]][k].tool # t

\* ExecuteTool was called on a tool that two registered servers list.
C2_Witness ==
  \E n, m \in DOMAIN load.outcome, t \in ToolNames :
    /\ Collide(n, m, t) /\ Before(n, m)
    /\ last.op = "ExecuteTool" /\ last.name = t /\ last.status = "ok"

\* C3: ExecuteTool on a name that is no key of the routing table returns the
\* unknown-tool error and an empty result, and leaves every connection (its
\* request counter, its pipes) and the log of requests as they were.
C3_UnknownToolNoCall ==
  [][\A n \in ToolNames \cup {UnlistedTool}, a \in ArgValues :
       (n \notin DOMAIN toolToClient /\ ExecuteTool(n, a, NoBehaviour)) =>
         /\ last'.err = "unknown MCP tool: " \o n
         /\ last'.out = ""
         /\ last'.conn = 0
         /\ conns' = conns
         /\ log' = log]_vars

\* ExecuteTool returned the unknown-tool error while a connection was
\* registered.
C3_Witness ==
  /\ last.op = "ExecuteTool"
  /\ last.err = "unknown MCP tool: " \o last.name
  /\ DOMAIN clients # {}
  /\ DOMAIN toolToClient # {}

\* C4: ExecuteTool on a registered name makes exactly one request, a
\* tools/call with that name and those arguments, on the connection the
\* routing table maps the name to, touches no other connection, and returns
\* the output and error of that connection's CallTool; when the server
\* answers with the echo of the arguments, the output is that echo.
C4_Delegates ==
  [][\A n \in ToolNames, a \in ArgValues :
       \A b \in (IF n \in DOMAIN toolToClient
                 THEN CallBehaviours(conns[toolToClient[n]], a, FALSE)
                 ELSE {}) :
         ExecuteTool(n, a, b) =>
           /\ log' = [log EXCEPT ![toolToClient[n]] =
                        Append(@, [id |-> conns[toolToClient[n]].requestID + 1,
                                   method |-> "tools/call", tool |-> n, args |-> a,
                                   sent |-> CanWrite(conns[toolToClient[n]])
                                            \/ conns[toolToClient[n]].kind = "http",
                                   status |-> last'.status])]
           /\ \A j \in DOMAIN conns : j # toolToClient[n] => conns'[j] = conns[j]
           /\ last'.conn = toolToClient[n]
           /\ last'.out = CallTool(conns[toolToClient[n]], n, a, b).out
           /\ last'.err = CallTool(conns[toolToClient[n]], n, a, b).err
           /\ (last'.resp = Response(last'.id, Echo(a)) =>
                 last'.out = MarshalArgs(a) /\ last'.err = "")]_vars

\* ExecuteTool returned the echo of its arguments.
C4_Witness ==
  /\ last.op = "ExecuteTool"
  /\ last.conn # 0
  /\ last.resp = Response(last.id, Echo(last.args))
  /\ last.out = MarshalArgs(last.args)
  /\ last.err = ""

\* C10: LoadFromConfig returns an error exactly when the configuration could
\* not be loaded; otherwise every configured server is processed, whatever
\* happened to the others, and each one that got through all its stages is
\* registered.
C10_FailuresAbsorbed ==
  /\ load.pc = "done" =>
       /\ (load.err # "") <=> (load.file \in {"unreadable", "malformed"})
       /\ load.err = "" => DOMAIN load.outcome = DOMAIN load.cfg
  /\ load.pc = "loop" => (load.err = "" /\ load.todo # <<>>)
  /\ \A n \in DOMAIN load.outcome :
       ~Failed(load.outcome[n]) => (n \in DOMAIN clients /\ load.outcome[n].registered)

\* The first server processed failed to initialize or to list its tools, and
\* the second one was registered; LoadFromConfig returned nil.
C10_Witness ==
  /\ load.pc = "done" /\ load.err = ""
  /\ Len(load.order) = 2
  /\ load.outcome[load.order[1]].initErr # "" \/ load.outcome[load.order[1]].listErr # ""
  /\ load.order[2] \in DOMAIN clients

\* The servers whose client was created and then failed to initialize or to
\* list its tools.
FailedAfterCreate ==
  {n \in DOMAIN load.outcome :
     /\ load.outcome[n].created
     /\ load.outcome[n].initErr # "" \/ load.outcome[n].listErr # ""}

\* C11: from the end of its iteration on, so before the next server is
\* processed, a client that was created and failed to initialize or to list
\* its tools has had Close called on it (a process client is killed and
\* reaped, its stdin closed), is not in the connection set, and no tool is
\* routed to it.
C11_FailedClosed ==
  \A n \in FailedAfterCreate :
    /\ load.outcome[n].conn \in closed
    /\ conns[load.outcome[n].conn].kind = "stdio" =>
         /\ ~conns[load.outcome[n].conn].stdinOpen
         /\ conns[load.outcome[n].conn].proc = "reaped"
    /\ ~load.outcome[n].registered
    /\ n \notin DOMAIN clients
    /\ load.outcome[n].conn \notin Range(clients)
    /\ \A t \in DOMAIN toolToClient : toolToClient[t] # load.outcome[n].conn

\* A process client failed to list its tools and the next server has not
\* been processed yet.
C11_Witness ==
  /\ load.pc = "loop"
  /\ \E n \in FailedAfterCreate :
       /\ load.outcome[n].listErr # ""
       /\ conns[load.outcome[n].conn].kind = "stdio"
       /\ conns[load.outcome[n].conn].proc = "reaped"

\* Connection i was initialized and its tools were listed.
Listed(i) ==
  \E n \in DOMAIN load.outcome :
    /\ load.outcome[n].conn = i
    /\ load.outcome[n].created
    /\ load.outcome[n].initErr = ""
    /\ load.outcome[n].listErr = ""

\* Connection i is in the Ready state: initialized, tools listed, not closed.
Ready(i) ==
  /\ Listed(i)
  /\ i \notin closed
  /\ conns[i].kind = "stdio" => (conns[i].stdinOpen /\ conns[i].proc # "reaped")

\* C12 as stated: in every state every entry of the routing table refers to
\* a connection that is Ready.
C12_Original ==
  \A t \in DOMAIN toolToClient : Ready(toolToClient[t])

\* C12: every entry of the routing table refers to a registered connection
\* that was initialized and had its tools listed, and that was Ready when the
\* entry was written; no step removes an entry, so that after Manager.Close
\* the entries refer to closed connections.
C12_RoutedWereReady ==
  /\ [](\A t \in DOMAIN toolToClient :
          toolToClient[t] \in Range(clients) /\ Listed(toolToClient[t]))
  /\ [][\A t \in DOMAIN toolToClient' :
          (t \notin DOMAIN toolToClient \/ toolToClient'[t] # toolToClient[t])
            => \A i \in DOMAIN conns' : i = toolToClient'[t] => Ready(i)']_vars
  /\ [][DOMAIN toolToClient \subseteq DOMAIN toolToClient']_vars
  /\ [][ManagerClose =>
          /\ toolToClient' = toolToClient
          /\ \A t \in DOMAIN toolToClient : toolToClient[t] \in closed']_vars

\* Manager.Close has returned and a tool is still routed, to a process
\* connection that is now closed.
C12_Witness ==
  /\ last.op = "Close"
  /\ \E t \in DOMAIN toolToClient :
       /\ toolToClient[t] \in closed
       /\ conns[toolToClient[t]].proc = "reaped"

\* C13: LoadFromConfig on a document that is not JSON returns an error and
\* leaves the connection set, the routing table, the connections and their
\* requests as they were; nothing is created or sent afterwards either.
C13_MalformedNoState ==
  /\ [][(load'.runs # load.runs /\ load'.file = "malformed") =>
          /\ load'.pc = "done"
          /\ load'.err # ""
          /\ conns' = conns /\ log' = log
          /\ clients' = clients /\ toolToClient' = toolToClient]_vars
  /\ [](load.file = "malformed" =>
          /\ load.pc = "done" /\ load.err # ""
          /\ conns = <<>> /\ log = <<>>
          /\ clients = EmptyMap /\ toolToClient = EmptyMap)

\* LoadFromConfig has returned its error on a document that is not JSON, and
\* ExecuteTool was called afterwards.
C13_Witness ==
  /\ load.file = "malformed"
  /\ load.err = "failed to load MCP config: parse"
  /\ last.op = "ExecuteTool"

\* C14: LoadMCPConfig on a path where no file exists returns an empty server
\* set and no error, and LoadFromConfig on it returns nil without creating or
\* registering a connection or routing a tool.
C14_MissingIsEmpty ==
  /\ \A f \in ConfigFiles :
       f.state = "missing" => LoadMCPConfig(f) = [servers |-> EmptyServers, err |-> ""]
  /\ load.file = "missing" =>
       /\ load.pc = "done" /\ load.err = ""
       /\ load.cfg = EmptyServers /\ load.outcome = EmptyMap
       /\ conns = <<>> /\ log = <<>>
       /\ clients = EmptyMap /\ toolToClient = EmptyMap

\* LoadFromConfig has returned nil on a path where no file exists.
C14_Witness ==
  /\ load.file = "missing"
  /\ load.runs = 1
  /\ load.pc = "done"
  /\ load.err = ""

\* C15 as stated: LoadMCPConfig returns an error only when the file was read
\* and its content does not parse; LoadFromConfig, which returns an error
\* exactly when LoadMCPConfig does, returns nil on every other file.
C15_ErrorOnlyOnParse ==
  (load.runs > 0 /\ load.file # "malformed") => load.err = ""

\* LoadFromConfig has returned the error of reading a file that exists and
\* cannot be read.
C15_Witness ==
  /\ load.runs = 1
  /\ load.file = "unreadable"
  /\ load.err = "failed to load MCP config: read"

\* The values of the type field that name a transport.
KnownTypes == {"", "stdio", "sse", "http"}

\* How many of IsStdio, IsSSE and IsHTTP hold of a server entry.
Applicable(sc) ==
  Cardinality({p \in {"IsStdio", "IsSSE", "IsHTTP"} :
                 \/ p = "IsStdio" /\ IsStdio(sc)
                 \/ p = "IsSSE" /\ IsSSE(sc)
                 \/ p = "IsHTTP" /\ IsHTTP(sc)})

\* The connections that carry the name of server n.
CreatedFor(n) == {i \in DOMAIN conns : conns[i].name = n}

LogLine(n, sc, o) ==
  IF ~o.supported
  THEN "Warning: unsupported transport type " \o sc.type \o " for MCP server " \o n
  ELSE IF ~o.created THEN "Warning: failed to start MCP server " \o n
  ELSE IF o.initErr # ""
  THEN "Warning: failed to initialize MCP server " \o n \o ": " \o o.initErr
  ELSE IF o.listErr # ""
  THEN "Warning: failed to list tools from MCP server " \o n \o ": " \o o.listErr
  ELSE "Loaded " \o ToString(Len(o.tools)) \o " tools from MCP server " \o n

\* The processed servers whose type names no transport.
UnknownTyped == {n \in DOMAIN load.outcome : load.cfg[n].type \notin KnownTypes}

\* C19 as stated: for a server whose type names no transport LoadFromConfig
\* reports an error, and no connection is created or registered for it.
C19_Original ==
  \A n \in UnknownTyped :
    /\ load.pc = "done" => load.err # ""
    /\ ~load.outcome[n].created
    /\ CreatedFor(n) = {}
    /\ n \notin DOMAIN clients

\* C19: a server whose type names no transport is not silently accepted:
\* LoadFromConfig logs the warning "unsupported transport type" for it, sends
\* it no request, and creates and registers no connection for it, so that no
\* tool is routed to it; LoadFromConfig goes on with the other servers and
\* returns no error.
C19_UnknownTypeSkipped ==
  \A n \in UnknownTyped :
    /\ ~load.outcome[n].supported
    /\ LogLine(n, load.cfg[n], load.outcome[n]) =
         "Warning: unsupported transport type " \o load.cfg[n].type
           \o " for MCP server " \o n
    /\ load.outcome[n].reqs = <<>>
    /\ ~load.outcome[n].created
    /\ CreatedFor(n) = {}
    /\ n \notin DOMAIN clients
    /\ \A t \in DOMAIN toolToClient : conns[toolToClient[t]].name # n
    /\ load.pc = "done" =>
         (load.err = "" /\ DOMAIN load.outcome = DOMAIN load.cfg)

\* LoadFromConfig has returned after processing a server of type "ws" and
\* then another server, which it registered.
C19_Witness ==
  /\ load.pc = "done"
  /\ load.err = ""
  /\ \E n \in UnknownTyped : \E m \in DOMAIN clients :
       /\ load.cfg[n].type = "ws"
       /\ load.order = <<n, m>>

\* The servers processed so far that are configured with type sse or http
\* and no url.
URLless ==
  {n \in DOMAIN load.outcome :
     load.cfg[n].type \in {"sse", "http"} /\ load.cfg[n].url = ""}

\* C33: for a server configured with type sse or http and an empty url the
\* constructor fails: no connection is created and no request sent,
\* LoadFromConfig logs the warning "failed to start" and registers neither
\* the server nor a tool for it, goes on with the other servers and returns
\* no error.
C33_NoURLSkipped ==
  \A n \in URLless :
    /\ load.outcome[n].supported
    /\ ~load.outcome[n].created
    /\ load.outcome[n].reqs = <<>>
    /\ CreatedFor(n) = {}
    /\ LogLine(n, load.cfg[n], load.outcome[n]) =
         "Warning: failed to start MCP server " \o n
    /\ n \notin DOMAIN clients
    /\ \A t \in DOMAIN toolToClient : conns[toolToClient[t]].name # n
    /\ load.pc = "done" =>
         (load.err = "" /\ DOMAIN load.outcome = DOMAIN load.cfg)

\* LoadFromConfig has returned after a server of type sse without url and
\* then another server, which it registered with a tool.
C33_Witness ==
  /\ load.pc = "done"
  /\ \E n \in URLless : \E m \in DOMAIN clients :
       /\ load.cfg[n].type = "sse"
       /\ load.order = <<n, m>>
       /\ \E t \in DOMAIN toolToClient : toolToClient[t] = clients[m]

\* The transport kind a server entry is configured with.
ConfiguredTransport(sc) == IF IsStdio(sc) THEN "stdio" ELSE sc.type

\* What GetServers returned has one entry per registered connection, with
\* its name, the transport kind it was configured with, the length of its
\* cached tool list and the names of the cached tools in order.
ServersExact ==
  /\ Len(last.servers) = Cardinality(DOMAIN clients)
  /\ {last.servers[k].Name : k \in DOMAIN last.servers} = DOMAIN clients
  /\ \A k \in DOMAIN last.servers :
       /\ last.servers[k].Transport =
            ConfiguredTransport(load.cfg[last.servers[k].Name])
       /\ last.servers[k].ToolCount =
            Len(conns[clients[last.servers[k].Name]].tools)
       /\ last.servers[k].ToolNames =
            [j \in DOMAIN conns[clients[last.servers[k].Name]].tools |->
               conns[clients[last.servers[k].Name]].tools[j].name]

\* C20: a call of GetServers returns exactly one entry per registered
\* connection, carrying its name, the transport kind it was configured with
\* (stdio, http or sse), a tool count equal to the length of its cached tool
\* list and the tool names in cached order, and it changes no state of the
\* Manager or of a connection.
C20_GetServersExact ==
  [][(last'.op = "GetServers" /\ last' # last) =>
       /\ ServersExact'
       /\ UNCHANGED <<conns, clients, toolToClient, load, closed, log>>]_vars

\* GetServers returned the entry of a registered server of type "sse" that
\* has listed a tool.
C20_Witness ==
  /\ last.op = "GetServers"
  /\ \E k \in DOMAIN last.servers :
       /\ load.cfg[last.servers[k].Name].type = "sse"
       /\ last.servers[k].Transport = "http"
       /\ last.servers[k].ToolCount >= 1

\* C23: for each server LoadFromConfig goes create, initialize, tools/list,
\* register.  No request is made without a client; the first request of a
\* created client is initialize with id 1; tools/list is sent only after
\* initialize succeeded, as the second request, with id 2; and the client is
\* registered only after tools/list succeeded and its result was parsed.
C23_StepsInOrder ==
  /\ \A n \in DOMAIN clients : n \in DOMAIN load.outcome /\ load.outcome[n].registered
  /\ \A n \in DOMAIN load.outcome :
       /\ ~load.outcome[n].created =>
            (load.outcome[n].reqs = <<>> /\ ~load.outcome[n].registered)
       /\ load.outcome[n].created =>
            /\ Len(load.outcome[n].reqs) \in {1, 2}
            /\ SubSeq(log[load.outcome[n].conn], 1, Len(load.outcome[n].reqs))
                 = load.outcome[n].reqs
            /\ load.outcome[n].reqs[1].id = 1
            /\ load.outcome[n].reqs[1].method = "initialize"
            /\ Len(load.outcome[n].reqs) = 1 <=> load.outcome[n].reqs[1].status # "ok"
            /\ Len(load.outcome[n].reqs) = 2 =>
                 /\ load.outcome[n].reqs[2].id = 2
                 /\ load.outcome[n].reqs[2].method = "tools/list"
            /\ load.outcome[n].registered <=>
                 /\ Len(load.outcome[n].reqs) = 2
                 /\ load.outcome[n].reqs[2].status = "ok"
                 /\ load.outcome[n].listErr = ""
            /\ load.outcome[n].registered => clients[n] = load.outcome[n].conn

\* LoadFromConfig has returned after a server whose initialize failed, so
\* that one request was made, and a server that was registered after its two
\* requests with ids 1 and 2.
C23_Witness ==
  /\ load.pc = "done"
  /\ \E n, m \in DOMAIN load.outcome :
       /\ load.outcome[n].created /\ Len(load.outcome[n].reqs) = 1
       /\ load.outcome[m].registered
       /\ Len(log[load.outcome[m].conn]) = 2
       /\ log[load.outcome[m].conn][1].id = 1
       /\ log[load.outcome[m].conn][2].id = 2

\* The registered process connections whose subprocess has exited and on
\* which Close has not been called.
ExitedLive ==
  {i \in Range(clients) :
     conns[i].kind = "stdio" /\ conns[i].proc = "exited" /\ i \notin closed}

\* C24 as stated: once the subprocess of a Ready process connection has
\* exited, the connection is Closed, it is no longer in the connection set,
\* and a call routed to it is not attempted on its pipes.
C24_Original ==
  \A i \in DOMAIN conns :
    (Listed(i) /\ conns[i].kind = "stdio" /\ conns[i].proc = "exited") =>
      /\ i \in closed
      /\ i \notin Range(clients)
      /\ ~(last.op = "ExecuteTool" /\ last.conn = i /\ last.status = "writeerr")

\* C24: the exit of the subprocess of a process connection changes nothing
\* in the Manager: the connection set, the routing table and the set of
\* closed connections stay as they are; and an ExecuteTool routed to a
\* connection whose subprocess has exited is still attempted: it takes the
\* next request id, fails to write the request, and returns the write error
\* and no result, the connection staying registered.
C24_ExitNotDetected ==
  [][/\ \A i \in DOMAIN conns :
          (conns[i].proc = "running" /\ conns'[i].proc = "exited") =>
            (clients' = clients /\ toolToClient' = toolToClient /\ closed' = closed)
     /\ (nops' = nops + 1 /\ last'.name \in DOMAIN toolToClient
           /\ toolToClient[last'.name] \in ExitedLive) =>
          /\ last'.conn = toolToClient[last'.name]
          /\ conns'[last'.conn].requestID = conns[last'.conn].requestID + 1
          /\ log'[last'.conn] =
               Append(log[last'.conn],
                      [id |-> conns[last'.conn].requestID + 1,
                       method |-> "tools/call", tool |-> last'.name,
                       args |-> last'.args, sent |-> FALSE, status |-> "writeerr"])
          /\ last'.err = "tools/call failed: writeerr"
          /\ last'.out = ""
          /\ clients' = clients /\ toolToClient' = toolToClient /\ closed' = closed
    ]_vars

\* ExecuteTool was routed to a registered connection whose subprocess had
\* exited by itself, and failed to write.
C24_Witness ==
  /\ last.op = "ExecuteTool"
  /\ last.status = "writeerr"
  /\ last.conn \in ExitedLive
  /\ conns[last.conn].stdinOpen

\* --------------------------------------------------- claims under WireSpec
\* The ids of the requests connection i has made, in the order it made them.
IDs(i) == [j \in DOMAIN log[i] |-> log[i][j].id]

\* C5: on every connection the request ids are strictly increasing and never
\* reused, whether or not earlier requests succeeded, and each connection
\* counts for itself: the j-th request of a connection carries id j whatever
\* the other connections have done.
C5_IDsIncrease ==
  \A i \in DOMAIN conns :
    /\ \A j, k \in DOMAIN log[i] : j < k => IDs(i)[j] < IDs(i)[k]
    /\ \A j \in DOMAIN log[i] : IDs(i)[j] = j
    /\ conns[i].requestID = Len(log[i])

\* A connection made a second request after its first one failed, on both
\* kinds of connection.
C5_Witness ==
  /\ last.op # ""
  /\ Len(log[last.conn]) = 2
  /\ log[last.conn][1].status \in {"writeerr", "readerr", "exhausted", "rpcerr",
                                   "neterr", "httperr", "parseerr"}
  /\ IDs(last.conn) = <<1, 2>>

\* The lines the last call on a process connection could read: those left
\* unread before it, then those the server wrote for it.
Stream == last.pre \o last.beh.emit

\* The last call was written to a process connection.
StdioCall ==
  /\ last.op \in {"Initialize", "ListTools", "CallTool"}
  /\ conns[last.conn].kind = "stdio"
  /\ last.sent

\* Line k of the stream is the response to the last call and only
\* notifications precede it.
AnswerAfterNotifications(k) ==
  /\ Stream[k] = Response(last.id, Stream[k].result)
  /\ Stream[k].result # None
  /\ \A j \in 1..(k - 1) : Stream[j] = Notification

\* C6 as stated: whatever number of notifications precede the matching
\* response, the call returns that response.
C6_Original ==
  StdioCall =>
    \A k \in DOMAIN Stream :
      AnswerAfterNotifications(k) => last.status = "ok" /\ last.resp = Stream[k]

\* C6: a call on a process connection returns the response carrying its id
\* when fewer than maxAttempts notifications precede it, having read every
\* one of them; with maxAttempts or more before it the call fails after
\* maxAttempts reads and returns no response.
C6_NotificationsSkipped ==
  StdioCall =>
    \A k \in DOMAIN Stream :
      AnswerAfterNotifications(k) =>
        IF k <= maxAttempts
        THEN last.status = "ok" /\ last.resp = Stream[k] /\ last.reads = k
        ELSE /\ last.status = "exhausted"
             /\ last.resp = NoLine
             /\ last.reads = maxAttempts
             /\ last.err # ""

\* A call answered on its last attempt, after maxAttempts - 1 notifications.
C6_Witness ==
  /\ StdioCall
  /\ Len(Stream) = maxAttempts
  /\ AnswerAfterNotifications(maxAttempts)
  /\ last.status = "ok"

\* C7: once Close has returned on a process connection its stdin is closed
\* and its process is killed and reaped, and stays so; Close on a connection
\* that was closed before returns no error and leaves every connection as it
\* was.
C7_CloseIdempotent ==
  /\ [](\A i \in closed :
          conns[i].kind = "stdio" => ~conns[i].stdinOpen /\ conns[i].proc = "reaped")
  /\ [][\A i \in DOMAIN conns :
          (WClose(i) /\ i \in closed) => (conns' = conns /\ last'.err = "")]_vars

\* Close has returned a second time on a process connection.
C7_Witness ==
  /\ last.op = "Close"
  /\ last.status = "again"
  /\ conns[last.conn].kind = "stdio"
  /\ conns[last.conn].proc = "reaped"

\* The last operation was a call on an HTTP connection.
HTTPCall ==
  /\ last.op \in {"Initialize", "ListTools", "CallTool"}
  /\ conns[last.conn].kind = "http"

\* The prefix a method puts before the error of sendRequest.
ErrPrefix(op) ==
  IF op = "Initialize" THEN "initialize failed: "
  ELSE IF op = "ListTools" THEN "tools/list failed: "
  ELSE "tools/call failed: "

\* Line k of the stream was read by the last call and is an object with an
\* error member.
ErrorRead(k) ==
  /\ k \in 1..last.reads
  /\ Stream[k].kind = "obj"
  /\ Stream[k].error # None

\* The reply to the last POST was parsed and has an error member.
ErrorReplied ==
  /\ last.beh.net = "ok" /\ last.beh.code = 200
  /\ last.beh.body.kind = "obj"
  /\ last.beh.body.error # None

\* C16 as stated: on either transport a call that received a parsed object
\* with an error member fails with that object's code and message.
C16_Original ==
  /\ HTTPCall =>
       (ErrorReplied =>
          last.err = ErrPrefix(last.op) \o RPCErrorText(last.beh.body.error))
  /\ StdioCall =>
       \A k \in DOMAIN Stream :
         ErrorRead(k) =>
           last.err = ErrPrefix(last.op) \o RPCErrorText(Stream[k].error)

\* C16: on an HTTP connection a parsed reply with an error member fails the
\* call with the error's code and message, whatever id it carries.  On a
\* process connection an object with an error member fails the call so, at
\* once, when it carries the call's id; one that carries another id is
\* skipped as one attempt, and the call goes on reading unless the attempts
\* or the stream ended with it.
C16_ErrorsSurface ==
  /\ HTTPCall =>
       (ErrorReplied =>
          /\ last.err = ErrPrefix(last.op) \o RPCErrorText(last.beh.body.error)
          /\ last.out = "")
  /\ StdioCall =>
       \A k \in DOMAIN Stream :
         ErrorRead(k) =>
           IF Stream[k].id = last.id
           THEN /\ k = last.reads
                /\ last.err = ErrPrefix(last.op) \o RPCErrorText(Stream[k].error)
                /\ last.out = ""
           ELSE k = last.reads => last.status \in {"exhausted", "readerr"}

\* A call on a process connection returned its response after reading an
\* object with an error member and another id.
C16_Witness ==
  /\ StdioCall
  /\ last.status = "ok"
  /\ last.err = ""
  /\ \E k \in DOMAIN Stream : ErrorRead(k) /\ k < last.reads

\* Line k of the stream was read by the last call and is a response that
\* carries the call's id.
Responds(k) ==
  /\ k \in 1..last.reads
  /\ Stream[k].kind = "obj"
  /\ Stream[k].id = last.id

\* C17 as stated: a call on a process connection reads at most maxAttempts
\* lines, and when none of the lines it read is a response with its id it
\* fails with the correlation-exhausted error.
C17_Original ==
  StdioCall =>
    /\ last.reads <= maxAttempts
    /\ (\A k \in DOMAIN Stream : ~Responds(k)) =>
         (last.status = "exhausted" /\ last.out = "" /\ last.err # "")

\* C17: a call on a process connection reads at most maxAttempts lines, each
\* line it reads being one attempt whatever its kind; when it has read
\* maxAttempts lines and none is a response with its id it fails with the
\* correlation-exhausted error and returns no result, and it fails so in no
\* other case; when the stream ends earlier it fails with a read error.
C17_AttemptsCapped ==
  StdioCall =>
    /\ last.reads <= maxAttempts
    /\ last.reads <= Len(Stream)
    /\ conns[last.conn].stdout = SubSeq(Stream, last.reads + 1, Len(Stream))
    /\ (\A k \in DOMAIN Stream : ~Responds(k)) =>
         IF last.reads = maxAttempts
         THEN /\ last.status = "exhausted"
              /\ last.err = ErrPrefix(last.op) \o "exhausted"
              /\ last.out = "" /\ last.resp = NoLine
         ELSE last.status = "readerr" /\ last.out = "" /\ last.err # ""
    /\ last.status = "exhausted" =>
         (last.reads = maxAttempts /\ \A k \in DOMAIN Stream : ~Responds(k))

\* A call failed with the correlation-exhausted error after reading
\* maxAttempts lines among which are a blank line, a line that is no JSON, one
\* that does not parse, a notification and a response with another id, its
\* own response being the line after them.
C17_Witness ==
  /\ StdioCall
  /\ last.status = "exhausted"
  /\ last.reads = maxAttempts
  /\ {Blank, Text, BadJSON, Notification, Response(last.id + 1, ObjectResult)}
        \subseteq {Stream[k] : k \in 1..maxAttempts}
  /\ Len(Stream) > maxAttempts
  /\ Stream[maxAttempts + 1].id = last.id

\* The last call ended with a response: as a success or as an RPC error.
Answered == last.status \in {"ok", "rpcerr"}

\* C26 as stated: on a process connection and on an HTTP connection, the
\* response a call accepts as its outcome carries the id of its request.
C26_Original ==
  ((StdioCall \/ HTTPCall) /\ Answered) => last.resp.id = last.id

\* C26: on a process connection the response a call accepts as its outcome,
\* as success or as RPC error, carries the id of its request: it is the last
\* line the call read, and no line read before it carries that id.  On an
\* HTTP connection the outcome is the body of the reply to the POST, parsed,
\* whatever id it carries.
C26_MatchedById ==
  /\ (StdioCall /\ Answered) =>
       /\ last.resp.id = last.id
       /\ last.resp = Stream[last.reads]
       /\ \A k \in 1..(last.reads - 1) : ~Responds(k)
  /\ (HTTPCall /\ Answered) =>
       /\ last.resp = last.beh.body
       /\ last.beh.net = "ok" /\ last.beh.code = 200
       /\ last.beh.body.kind = "obj"
       /\ last.status = "rpcerr" <=> last.beh.body.error # None

\* A call on an HTTP connection succeeded with a reply that carries another
\* id than its request.
C26_Witness ==
  /\ HTTPCall
  /\ last.status = "ok"
  /\ last.err = ""
  /\ last.resp.id = last.id + 1

\* Line k of the stream was left unread by an earlier call and is a response
\* to a request made before the last call.
Stale(k) ==
  /\ k \in 1..Len(last.pre)
  /\ Stream[k].kind = "obj"
  /\ Stream[k].id \in 1..(last.id - 1)

\* C27: a response to an earlier call of a process connection that the
\* later call reads is never the outcome of the later call: the later call
\* skips it and reads on, and returns what carries its own id, unless its
\* attempts or the stream end with the late response.
C27_LateResponseSkipped ==
  StdioCall =>
    \A k \in DOMAIN Stream :
      (Stale(k) /\ k <= last.reads) =>
        /\ Answered => (k < last.reads /\ last.resp.id = last.id)
        /\ last.resp # Stream[k]
        /\ k = last.reads => last.status \in {"exhausted", "readerr"}

\* The first call of a process connection ran out of attempts with its
\* response unread; the second call read that response first and then
\* returned its own.
C27_Witness ==
  /\ StdioCall
  /\ last.id = 2
  /\ log[last.conn][1].status = "exhausted"
  /\ Stale(1)
  /\ Stream[1].id = 1 /\ Stream[1].result # None
  /\ last.status = "ok"
  /\ last.reads >= 2
  /\ last.resp.id = 2

\* C28: a call on a process connection, Initialize among them, returns
\* without error only if it read a message that carries its id and a result
\* member.
C28_SuccessNeedsResult ==
  (StdioCall /\ last.err = "") =>
    \E k \in 1..last.reads : Responds(k) /\ Stream[k].result # None

\* Initialize returned without error on a process connection whose server
\* wrote one line: a request of its own with the id of the initialize
\* request, so with neither result nor error.
C28_Witness ==
  /\ StdioCall
  /\ last.op = "Initialize"
  /\ last.err = ""
  /\ Stream = <<ServerRequest(last.id)>>
  /\ last.reads = 1

\* Connection i is the HTTP connection NewHTTPClient returns for a server
\* configured with type t, after any number of requests.
ConfiguredAs(i, t) ==
  [conns[i] EXCEPT !.requestID = 0, !.tools = <<>>]
    = NewHTTPClient(conns[i].name, ServerConfig(t, BaseURL))

\* C31: every request of an HTTP connection (initialize, tools/list,
\* tools/call) is one POST, sent whatever the earlier requests returned: to
\* the base URL followed by "/message" for a server configured as sse, to
\* the base URL for one configured as http; what decides it is set by the
\* constructor and no request changes it.
C31_PostPerRequest ==
  [][/\ \A i \in DOMAIN conns :
          /\ conns'[i].isSSE = conns[i].isSSE
          /\ conns'[i].baseURL = conns[i].baseURL
     /\ (nops' = nops + 1 /\ conns[last'.conn].kind = "http") =>
          /\ last'.op \in {"Initialize", "ListTools", "CallTool"}
          /\ last'.sent
          /\ last'.id = conns[last'.conn].requestID + 1
          /\ \A t \in {"sse", "http"} :
               ConfiguredAs(last'.conn, t) =>
                 last'.url = IF t = "sse" THEN BaseURL \o "/message" ELSE BaseURL
          /\ \E t \in {"sse", "http"} : ConfiguredAs(last'.conn, t)]_vars

\* The second request of a connection configured as sse, a tools/call after
\* a request that failed, was posted to the base URL followed by "/message".
C31_Witness ==
  /\ HTTPCall
  /\ last.op = "CallTool"
  /\ ConfiguredAs(last.conn, "sse")
  /\ Len(log[last.conn]) = 2
  /\ log[last.conn][1].status = "httperr"
  /\ last.url = BaseURL \o "/message"

\* C32: a call on an HTTP connection whose reply has another status than
\* 200 fails with the status and the body of the reply, whatever the body
\* holds; one whose reply has status 200 and a body with an error member
\* fails with the code and the message of that error; a failed call returns
\* no output and caches no tools; and a call returns without error only on
\* a reply with status 200 and a body that parses and has no error member.
C32_HTTPFailures ==
  [][(nops' = nops + 1 /\ conns[last'.conn].kind = "http") =>
       /\ (last'.beh.net = "ok" /\ last'.beh.code # 200) =>
            last'.err = ErrPrefix(last'.op) \o "HTTP error "
                          \o ToString(last'.beh.code) \o ": "
                          \o BodyText(last'.beh.body)
       /\ (last'.beh.net = "ok" /\ last'.beh.code = 200
             /\ last'.beh.body.kind = "obj" /\ last'.beh.body.error # None) =>
            last'.err = ErrPrefix(last'.op) \o "RPC error "
                          \o ToString(last'.beh.body.error.code) \o ": "
                          \o last'.beh.body.error.message
       /\ last'.err # "" =>
            /\ last'.out = ""
            /\ conns'[last'.conn].tools = conns[last'.conn].tools
       /\ last'.err = "" =>
            /\ last'.beh.net = "ok" /\ last'.beh.code = 200
            /\ last'.beh.body.kind = "obj" /\ last'.beh.body.error = None]_vars

\* A tools/call on an HTTP connection was answered with status 404 and a
\* body that holds a JSON-RPC error: the failure carries the status and the
\* body.
C32_Witness ==
  /\ HTTPCall
  /\ last.op = "CallTool"
  /\ last.beh.code = 404
  /\ last.beh.body.error # None
  /\ last.status = "httperr"
  /\ last.err = "tools/call failed: HTTP error 404: " \o BodyText(ErrorResponse(last.id))

\* The texts of the blocks of type text of cs, in order, joined.
RECURSIVE JoinTexts(_)
JoinTexts(cs) ==
  IF cs = <<>> THEN ""
  ELSE JoinTexts(SubSeq(cs, 1, Len(cs) - 1))
         \o (IF cs[Len(cs)].type = "text" THEN cs[Len(cs)].text ELSE "")

\* The last call was a CallTool whose request got a result that parses as
\* a tool-call result.
ToolResultReceived ==
  /\ last.op = "CallTool"
  /\ last.status = "ok"
  /\ ResultParses(last.resp.result)

\* C34: on a process connection and on an HTTP connection, a CallTool that
\* received a result not flagged isError returns, without error, the texts
\* of the content blocks of type text joined in order; one that received a
\* result flagged isError returns an empty output and the error "tool
\* error: " followed by those texts joined; blocks of another type add
\* nothing.
C34_TextBlocksJoined ==
  ToolResultReceived =>
    IF last.resp.result.isError
    THEN /\ last.out = ""
         /\ last.err = "tool error: " \o JoinTexts(last.resp.result.content)
    ELSE /\ last.out = JoinTexts(last.resp.result.content)
         /\ last.err = ""

\* A CallTool on the process connection got its response, and then a
\* CallTool on the HTTP connection failed with "tool error: boom" for a result flagged
\* isError that holds a resource block between its two text blocks.
C34_Witness ==
  /\ ToolResultReceived
  /\ conns[last.conn].kind = "http"
  /\ last.resp.result.isError
  /\ Len(last.resp.result.content) = 3
  /\ last.out = ""
  /\ last.err = "tool error: boom"
  /\ \E i \in DOMAIN conns :
       /\ conns[i].kind = "stdio"
       /\ Len(log[i]) = 1
       /\ log[i][1].method = "tools/call"
       /\ log[i][1].status = "ok"

\* ------------------------------------------------- claims under ReloadSpec
\* The connections the current run of LoadFromConfig registered.
RegisteredNow ==
  {load.outcome[n].conn : n \in {m \in DOMAIN load.outcome : load.outcome[m].registered}}

\* C21: after a second LoadFromConfig on the same Manager the connection set
\* and the routing table hold only connections and tools that reached Ready
\* in that second run, and nothing left over from the first.
C21_RebuiltByReload ==
  (load.runs = 2 /\ load.pc = "done") =>
    /\ DOMAIN clients = {n \in DOMAIN load.outcome : load.outcome[n].registered}
    /\ Range(clients) \subseteq RegisteredNow
    /\ \A t \in DOMAIN toolToClient :
         /\ toolToClient[t] \in RegisteredNow
         /\ \E k \in DOMAIN conns[toolToClient[t]].tools :
              conns[toolToClient[t]].tools[k].name = t

\* The second LoadFromConfig has returned, having registered one server,
\* while the connection set still holds a server that only the first run
\* loaded, and a tool is still routed to it.
C21_Witness ==
  /\ load.runs = 2 /\ load.pc = "done"
  /\ RegisteredNow # {}
  /\ \E n \in DOMAIN clients :
       /\ n \notin DOMAIN load.outcome
       /\ \E t \in DOMAIN toolToClient : toolToClient[t] = clients[n]

\* C22: once Manager.Close has run after any number of LoadFromConfig calls,
\* every subprocess the Manager ever spawned is released: its stdin is closed
\* and it has been killed and waited for.
C22_AllReleased ==
  last.op = "Close" =>
    \A i \in DOMAIN conns :
      conns[i].kind = "stdio" =>
        (~conns[i].stdinOpen /\ conns[i].proc = "reaped")

\* Manager.Close has run; the client of a server was replaced under its name
\* by the second LoadFromConfig, and its subprocess still runs with stdin
\* open, while the client that replaced it is released.
C22_Witness ==
  /\ last.op = "Close"
  /\ \E i, j \in DOMAIN conns :
       /\ i < j
       /\ conns[i].name = conns[j].name
       /\ conns[i].proc = "running" /\ conns[i].stdinOpen
       /\ j \in Range(clients)
       /\ conns[j].proc = "reaped"

\* -------------------------------------------------- claims under ToolsSpec
\* The methods of the Manager other than LoadFromConfig.
OtherMethods ==
  {"ExecuteTool", "HasTool", "GetToolServer", "GetServers", "GetBackendTools",
   "GetOllamaTools", "Close"}

\* C25: the connection set and the routing table are written only by
\* LoadFromConfig: a step that changes one of them is an iteration of its
\* loop, and a call of ExecuteTool, HasTool, GetToolServer, GetServers,
\* GetBackendTools, GetOllamaTools or Close leaves both as they are,
\* whatever its arguments and whether it succeeds or fails.
C25_MapsWrittenByLoad ==
  [][/\ (clients' # clients \/ toolToClient' # toolToClient) =>
          (load.pc = "loop" /\ load'.todo = Tail(load.todo))
     /\ (last'.op \in OtherMethods /\ (last' # last \/ nops' # nops)) =>
          (clients' = clients /\ toolToClient' = toolToClient)
    ]_vars

\* With a tool routed to a registered client, an ExecuteTool has failed,
\* Close has run, and then GetBackendTools returned the client's tool.
C25_Witness ==
  /\ last.op = "GetBackendTools"
  /\ last.tools # <<>>
  /\ nops = 1
  /\ \E i \in Range(clients) : i \in closed /\ Len(log[i]) = 3 /\ log[i][3].status # "ok"
  /\ DOMAIN toolToClient # {}

\* The last operation returned the aggregated tool list.
Aggregated == last.op \in {"GetBackendTools", "GetOllamaTools"}

\* The name and the description of entry k of the aggregated tool list.
ListedName(k) ==
  IF last.op = "GetBackendTools" THEN last.tools[k].Name
  ELSE last.tools[k].Function.Name
ListedDescription(k) ==
  IF last.op = "GetBackendTools" THEN last.tools[k].Description
  ELSE last.tools[k].Function.Description

\* The registered connections whose cached tool list has the name t.
Listing(t) ==
  {i \in Range(clients) : \E j \in DOMAIN conns[i].tools : conns[i].tools[j].name = t}

\* The descriptions connection i gives of the tool t.
DescriptionsBy(i, t) ==
  {conns[i].tools[j].description :
     j \in {x \in DOMAIN conns[i].tools : conns[i].tools[x].name = t}}

C30_Original ==
  /\ \A t \in Callers : (threads[t].pc = "lock") ~> (threads[t].pc = "done")
  /\ (load.pc = "loop") ~> (load.pc = "done")

\* C30: with a server that writes a line or closes its output whenever a
\* reader waits, and whose input pipe always has room for the request, every
\* call on the process connection returns, with a response or a failure, and
\* LoadFromConfig returns.
C30_CallsReturn ==
  [](conns[1].proc = "running" => conns[1].stdinRoom) =>
    /\ \A t \in Callers :
         (threads[t].pc = "lock") ~>
           (threads[t].pc = "done" /\ threads[t].status # "")
    /\ (load.pc = "loop") ~> (load.pc = "done")

\* With the pipe never full, both calls have returned after LoadFromConfig
\* did: one ran out of attempts on maxAttempts lines of a server that went
\* on writing, the other found the pipe closed by a server that had exited.
C30_Witness ==
  /\ load.pc = "done"
  /\ "s1" \in DOMAIN clients
  /\ conns[1].stdinRoom
  /\ \A t \in Callers : threads[t].pc = "done"
  /\ \E t \in Callers :
       threads[t].status = "exhausted" /\ threads[t].attempt = maxAttempts
  /\ \E t \in Callers : threads[t].status \in {"readerr", "writeerr"}

\* ---------------------------------------------------- claims under CmdSpec
\* The input of the last call without the whitespace around it.
Trimmed == TrimSpace(chat.call.input)

\* The positions of Trimmed, after the '/', at which a token starts and at
\* which it ends.
TokenStarts ==
  {k \in 2..Len(Trimmed) :
     Trimmed[k] \notin Whitespace /\ (k = 2 \/ Trimmed[k - 1] \in Whitespace)}
TokenEnds ==
  {k \in 2..Len(Trimmed) :
     Trimmed[k] \notin Whitespace
       /\ (k = Len(Trimmed) \/ Trimmed[k + 1] \in Whitespace)}

\* The n-th smallest element of a set of numbers.
RECURSIVE Nth(_, _)
Nth(S, n) ==
  IF n = 1 THEN CHOOSE k \in S : \A j \in S : k <= j
  ELSE Nth(S \ {CHOOSE k \in S : \A j \in S : k <= j}, n - 1)

\* The n-th token after the '/'.
TokenAt(n) == SubSeq(Trimmed, Nth(TokenStarts, n), Nth(TokenEnds, n))

ParsedName == ParseCommand(chat.call.input).name

\* C39: IsCommand is true exactly when ParseCommand yields a name that is
\* not empty and that, letter case apart, is the name of a registered
\* command; it is false for an input without a leading '/' and for a name
\* with a '/' in it; and Execute returns the error "unknown command" with
\* the name, and runs no handler, on an input that is no command although
\* a name parses.
C39_IsCommand ==
  /\ chat.call.op = "IsCommand" =>
       /\ chat.call.is <=>
            (ParsedName # <<>>
               /\ \E r \in RegisteredNames : ToLower(ParsedName) = ToLower(r))
       /\ (Trimmed = <<>> \/ Trimmed[1] # "/") => ~chat.call.is
       /\ (\E k \in DOMAIN ParsedName : ParsedName[k] = "/") => ~chat.call.is
  /\ (chat.call.op = "Execute" /\ ~IsCommand(chat.call.input)
        /\ ParsedName # <<>>) =>
       chat.call.exec =
         Executed(<<>>, <<>>, <<>>, <<"unknown command: /">> \o ParsedName)

\* IsCommand returned true for the input " /Mcp ".
C39_Witness ==
  /\ chat.call.op = "IsCommand"
  /\ chat.call.input = <<" ", "/", "M", "c", "p", " ">>
  /\ chat.call.is

\* --------------------------------------------------- claims under ChatSpec
\* A step in which Enter is pressed and the handler takes the input up: the
\* model is not waiting, and the input is not blank.
EnterTaken ==
  /\ chat'.enters = chat.enters + 1
  /\ ~chat.waiting
  /\ TrimSpace(chat'.entered) # <<>>

\* The input names a registered command, whatever the case of the name.
Recognized(input) ==
  /\ HasSlashPrefix(TrimSpace(input))
  /\ \E n \in RegisteredNames :
       ToLower(ParseCommand(input).name) = ToLower(n)

\* No user message of the LLM history, nor of a request under way, is a
\* recognized command.
NoCommandSent(m) ==
  /\ \A i \in DOMAIN m.messages :
       m.messages[i].Role = "user" => ~Recognized(m.messages[i].Content)
  /\ \A k \in DOMAIN m.requests : \A i \in DOMAIN m.requests[k].msgs :
       m.requests[k].msgs[i].Role = "user"
         => ~Recognized(m.requests[k].msgs[i].Content)

\* C37: when Enter is pressed on an input the chat loop takes up, a
\* recognized slash command is executed locally (the conversation shows the
\* command and what it returned), the LLM message history and the requests
\* under way are left as they were, and no request is started; an input that
\* starts with '/' and whose command name is not registered is appended to the
\* history as a user message and sent in a new request.  No user message of
\* the history or of a request is ever a recognized command.
C37_CommandsAreLocal ==
  [][ /\ NoCommandSent(chat')
      /\ EnterTaken /\ Recognized(chat'.entered)
           => /\ chat'.messages = chat.messages
              /\ chat'.requests = chat.requests
              /\ chat'.nreq = chat.nreq
              /\ chat'.waiting = chat.waiting
              /\ Len(chat'.conversation) = Len(chat.conversation) + 2
              /\ chat'.conversation[Len(chat.conversation) + 1] =
                   Shown("Command: ", TrimSpace(chat'.entered))
              /\ Head(chat'.conversation[Len(chat.conversation) + 2]) \in
                   {"System: ", "System: Model changed to: "}
      /\ EnterTaken /\ HasSlashPrefix(TrimSpace(chat'.entered))
           /\ ~Recognized(chat'.entered)
           => /\ chat'.messages =
                   Append(chat.messages,
                          Message("user", TrimSpace(chat'.entered), <<>>, ""))
              /\ chat'.nreq = chat.nreq + 1
              /\ Len(chat'.requests) = Len(chat.requests) + 1
              /\ chat'.requests[Len(chat'.requests)].msgs = chat'.messages
    ]_vars

\* A command was run, and then an unregistered '/no' was sent to the LLM.
C37_Witness ==
  /\ chat.enters = 2
  /\ chat.entered = <<"/", "n", "o">>
  /\ chat.conversation[1] = Shown("Command: ", <<"/", "M", "c", "p">>)
  /\ chat.messages = <<SystemPrompt, Message("user", <<"/", "n", "o">>, <<>>, "")>>
  /\ Len(chat.requests) = 1

\* C38: at most one LLM request is outstanding at any time, and an Enter
\* pressed while the model is waiting starts no request, appends nothing to
\* the message history and executes no command: it changes nothing of the
\* model.
C38_OneRequestAtATime ==
  [][ /\ Len(chat'.requests) <= 1
      /\ chat.waiting /\ chat'.enters = chat.enters + 1
           => chat' = [chat EXCEPT !.enters = @ + 1, !.entered = chat'.entered]
    ]_vars

\* Two requests are outstanding: the one of a message entered while the tools
\* of an assistant message were executed, and the one that carries the
\* results of these tools.
C38_Witness ==
  /\ Len(chat.requests) = 2
  /\ chat.requests[1].msgs[Len(chat.requests[1].msgs)].Role = "user"
  /\ chat.requests[2].msgs[Len(chat.requests[2].msgs)].Role = "tool"
  /\ chat.runs = <<>>
  /\ chat.waiting

\* The step starts the execution of the tool calls of an assistant message.
RunStarts == Len(chat'.runs) = Len(chat.runs) + 1

\* The step executes the tool call at which run k is.
RunAdvances(k) ==
  /\ Len(chat'.runs) = Len(chat.runs)
  /\ k \in DOMAIN chat.runs
  /\ Len(chat'.runs[k].results) = Len(chat.runs[k].results) + 1

\* The step hands the results of run k to Update.
RunEnds(k) ==
  /\ k \in DOMAIN chat.runs
  /\ chat'.runs = Remove(chat.runs, k)

\* The tool message msg answers the tool call: it has the role tool and the
\* id of the call.
Answers(msg, call) == msg.Role = "tool" /\ msg.ToolCallID = call.ID

\* C35: the tool calls of an assistant message are executed as one run that
\* holds them all in their order; each call executed adds to the results of
\* its run one tool message with the id of the call, to the end, and leaves
\* the calls of the run as they are; when the call failed (ExecuteTool
\* returned an error, or the name is that of no tool) the message holds the
\* error text, and otherwise the output; a run ends only with one result per
\* call, and then its results are appended to the LLM history in the order
\* of the calls and the next request, which carries them, is started.  Tool
\* messages enter the history in no other way.
C35_ToolMessages ==
  [][ /\ RunStarts
           => /\ chat'.messages[Len(chat'.messages)].Role = "assistant"
              /\ Len(chat'.messages) = Len(chat.messages) + 1
              /\ chat'.runs[Len(chat'.runs)].results = <<>>
              /\ chat'.runs[Len(chat'.runs)].calls # <<>>
              /\ chat'.messages[Len(chat'.messages)].ToolCalls # <<>>
                   => chat'.runs[Len(chat'.runs)].calls =
                        chat'.messages[Len(chat'.messages)].ToolCalls
      /\ \A k \in 1..MaxRequests : RunAdvances(k)
           => /\ chat'.runs[k].calls = chat.runs[k].calls
              /\ SubSeq(chat'.runs[k].results, 1, Len(chat.runs[k].results)) =
                   chat.runs[k].results
              /\ Answers(chat'.runs[k].results[Len(chat'.runs[k].results)],
                         CurrentCall(chat.runs[k]))
              /\ log # log' /\ last'.err # ""
                   => last'.err \in
                        Range(chat'.runs[k].results[Len(chat'.runs[k].results)].Content)
              /\ log # log' /\ last'.err = ""
                   => chat'.runs[k].results[Len(chat'.runs[k].results)].Content =
                        <<last'.out>>
              /\ log = log' /\ CurrentCall(chat.runs[k]).Name \notin Range(BuiltinTools)
                   => ("unknown tool: " \o CurrentCall(chat.runs[k]).Name) \in
                        Range(chat'.runs[k].results[Len(chat'.runs[k].results)].Content)
              /\ chat'.messages = chat.messages
      /\ \A k \in 1..MaxRequests : RunEnds(k)
           => /\ Len(chat.runs[k].results) = Len(chat.runs[k].calls)
              /\ \A j \in DOMAIN chat.runs[k].calls :
                   Answers(chat.runs[k].results[j], chat.runs[k].calls[j])
              /\ chat'.messages = chat.messages \o chat.runs[k].results
              /\ chat'.nreq = chat.nreq + 1
              /\ chat'.requests[Len(chat'.requests)].msgs = chat'.messages
      /\ (\A k \in 1..MaxRequests : ~RunEnds(k))
           => \A i \in DOMAIN chat'.messages :
                chat'.messages[i].Role = "tool" => i \in DOMAIN chat.messages
    ]_vars

\* The assistant called t1 and read; ExecuteTool failed on t1, read was
\* executed all the same, and both tool messages are in the history of the
\* request that continues the conversation.
C35_Witness ==
  /\ Len(chat.messages) = 5
  /\ chat.messages[3].Role = "assistant"
  /\ chat.messages[3].ToolCalls =
       <<ToolCall("c1", "t1", "x1"), ToolCall("c2", "read", "x2")>>
  /\ last.op = "ExecuteTool" /\ last.name = "t1" /\ last.err # ""
  /\ Answers(chat.messages[4], chat.messages[3].ToolCalls[1])
  /\ last.err \in Range(chat.messages[4].Content)
  /\ chat.messages[5] = Message("tool", <<"output of read">>, <<>>, "c2")
  /\ Len(chat.requests) = 1
  /\ chat.requests[1].msgs = chat.messages

\* C36: a tool call whose name is that of a built-in tool is executed
\* locally, by executeTool, and nothing of the MCP manager or its connections
\* changes; a tool call makes a request on an MCP connection only when its
\* name is not that of a built-in tool.
C36_BuiltinFirst ==
  [][ \A k \in 1..MaxRequests : RunAdvances(k)
        => /\ CurrentCall(chat.runs[k]).Name \in Range(BuiltinTools)
                => /\ UNCHANGED mcpVars
                   /\ chat'.runs[k].results[Len(chat'.runs[k].results)] \in
                        {ToolMessage(CurrentCall(chat.runs[k]), o) :
                           o \in executeTool(CurrentCall(chat.runs[k]).Name)}
           /\ log' # log
                => CurrentCall(chat.runs[k]).Name \notin Range(BuiltinTools)
    ]_vars

\* The server lists a tool named read; the call of read by the assistant
\* went to the server, and the tool message holds what the server answered.
C36_Witness ==
  /\ last.op = "ExecuteTool"
  /\ last.name = "read"
  /\ last.err = ""
  /\ \E k \in DOMAIN chat.runs :
       /\ Len(chat.runs[k].results) = 2
       /\ chat.runs[k].calls[2].Name = "read"
       /\ chat.runs[k].results[2].Content = <<MarshalArgs("x2")>>
  /\ Len(log[1]) = 4

\* --------------------------------------- claims under ConcSpec, FairConcSpec
\* C8, in the case it names: with a server that stays alive and writes
\* nothing, once Close is invoked on a process connection it eventually
\* returns with the subprocess terminated, whatever the callers are doing.
C8_CloseReturns ==
  [](emitted = 0 /\ conns[1].proc # "exited")
    => ((threads[Closer].pc = "lock")
          ~> (threads[Closer].pc = "done" /\ conns[1].proc = "reaped"))

\* Close is waiting for the lock while a caller that wrote its request is
\* blocked reading from a live server that has written nothing.
C8_Witness ==
  /\ threads[Closer].pc = "lock"
  /\ mu \in Callers
  /\ threads[mu].pc = "read"
  /\ conns[1].stdout = <<>>
  /\ conns[1].proc = "running"
  /\ emitted = 0

\* The goroutines between Lock and Unlock of sendRequest, and those whose
\* request is written and has not returned.
InSend == {t \in Callers : threads[t].pc \in {"write", "read"}}
InFlight == {t \in Callers : threads[t].pc = "read"}

\* C9: among concurrent callers of one process connection at most one is
\* between the write of its request and its return, no other caller is
\* inside sendRequest meanwhile, the lines are consumed by that caller only,
\* and a caller that returns a response returns one carrying its own id,
\* which no other caller has.
C9_Serialized ==
  /\ [](/\ Cardinality(InFlight) <= 1
        /\ Cardinality(InSend) <= 1
        /\ InSend \subseteq {mu}
        /\ \A t \in Callers :
             threads[t].status = "ok" =>
               /\ threads[t].resp.id = threads[t].id
               /\ \A u \in Callers \ {t} : threads[u].id # threads[t].id)
  /\ [][\A t \in Callers :
          (SendWrite(t) \/ SendRead(t)) => InSend = {t}]_vars

\* Both callers have returned a response, the second to lock having read
\* past a repeated answer to the first.
C9_Witness ==
  /\ \A t \in Callers : threads[t].status = "ok"
  /\ \E t \in Callers : threads[t].attempt > 0
  /\ emitted = MaxLines

====
